---- MODULE Spec2Model ----
(***************************************************************************)
(* Model of the horary judgment engine (calculator.py, judgment_engine.py).*)
(*                                                                         *)
(* Angles are integers counted in arcminutes (1 degree = 60), speeds are   *)
(* integers in arcminutes per day, so every comparison the code makes on   *)
(* floats is made here on exact integers; a quotient a/b is never formed,  *)
(* two quotients are compared by cross-multiplication.                     *)
(***************************************************************************)
EXTENDS Integers, Sequences, FiniteSets, TLC

VARIABLES
    config,     \* the process-wide configuration (horary_config.cfg())
    env,        \* what the external collaborators answer for this request
    req,        \* the caller's arguments of judge / judge_question
    pc,         \* position of the request: "start", "charted", "done", ...
    chart,      \* the HoraryChart built by calculate_chart
    result,     \* the record handed back to the caller
    fn          \* argument/result record of the pure-function specifications

vars == <<config, env, req, pc, chart, result, fn>>

----------------------------------------------------------------------------
(* Units and small helpers *)

Deg(d) == 60 * d

Abs(x) == IF x < 0 THEN -x ELSE x

Min2(a, b) == IF a < b THEN a ELSE b

Circle == Deg(360)

SignSpan == Deg(30)

----------------------------------------------------------------------------
(* Enumerations of models.py, in the iteration order the code relies on *)

PlanetSeq == <<"Sun", "Moon", "Mercury", "Venus", "Mars", "Jupiter", "Saturn">>

Planets == {PlanetSeq[i] : i \in 1..Len(PlanetSeq)}

\* Sign k (0 = Aries .. 11 = Pisces) starts at 30*k degrees
SignNames == <<"Aries", "Taurus", "Gemini", "Cancer", "Leo", "Virgo", "Libra",
               "Scorpio", "Sagittarius", "Capricorn", "Aquarius", "Pisces">>

SignOf(name) == (CHOOSE i \in 1..12 : SignNames[i] = name) - 1

SignStart(s) == SignSpan * s

SignRuler(s) ==
    <<"Mars", "Venus", "Mercury", "Moon", "Sun", "Mercury", "Venus",
      "Mars", "Jupiter", "Saturn", "Saturn", "Jupiter">>[s + 1]

AspectSeq == <<"Conjunction", "Sextile", "Square", "Trine", "Opposition">>

AspectTypes == {AspectSeq[i] : i \in 1..Len(AspectSeq)}

AspectDegrees(a) ==
    CASE a = "Conjunction" -> Deg(0)
      [] a = "Sextile"     -> Deg(60)
      [] a = "Square"      -> Deg(90)
      [] a = "Trine"       -> Deg(120)
      [] a = "Opposition"  -> Deg(180)

AspectOrb(cfg, a) == cfg.aspect_orb[a]

\* calculator.py: self.exaltations
Exaltation(p) ==
    CASE p = "Sun"     -> SignOf("Aries")
      [] p = "Moon"    -> SignOf("Taurus")
      [] p = "Mercury" -> SignOf("Virgo")
      [] p = "Venus"   -> SignOf("Pisces")
      [] p = "Mars"    -> SignOf("Capricorn")
      [] p = "Jupiter" -> SignOf("Cancer")
      [] p = "Saturn"  -> SignOf("Libra")

\* calculator.py: self.falls
Fall(p) ==
    CASE p = "Sun"     -> SignOf("Libra")
      [] p = "Moon"    -> SignOf("Scorpio")
      [] p = "Mercury" -> SignOf("Pisces")
      [] p = "Venus"   -> SignOf("Virgo")
      [] p = "Mars"    -> SignOf("Cancer")
      [] p = "Jupiter" -> SignOf("Capricorn")
      [] p = "Saturn"  -> SignOf("Aries")

\* calculator.py: detriment_signs
DetrimentSigns(p) ==
    CASE p = "Sun"     -> {SignOf("Aquarius")}
      [] p = "Moon"    -> {SignOf("Capricorn")}
      [] p = "Mercury" -> {SignOf("Pisces"), SignOf("Sagittarius")}
      [] p = "Venus"   -> {SignOf("Aries"), SignOf("Scorpio")}
      [] p = "Mars"    -> {SignOf("Libra"), SignOf("Taurus")}
      [] p = "Jupiter" -> {SignOf("Gemini"), SignOf("Virgo")}
      [] p = "Saturn"  -> {SignOf("Cancer"), SignOf("Leo")}

\* calculator.py: house_joys
HouseJoy(p) ==
    CASE p = "Mercury" -> 1
      [] p = "Moon"    -> 3
      [] p = "Venus"   -> 5
      [] p = "Mars"    -> 6
      [] p = "Sun"     -> 9
      [] p = "Jupiter" -> 11
      [] p = "Saturn"  -> 12

\* calculator.py: self.combustion_resistant
CombustionResistant == {"Mercury", "Venus"}

----------------------------------------------------------------------------
(* _horary_math helpers the engine imports *)

\* calculate_elongation: angular separation of two longitudes, 0..180 degrees
calculate_elongation(lon1, lon2) ==
    LET d == Abs(lon1 - lon2) % Circle
    IN IF d > Deg(180) THEN Circle - d ELSE d

\* days_to_sign_exit(longitude, speed): the quotient num/den of the distance to
\* the sign boundary lying in the direction of motion and the absolute speed;
\* None for a planet that does not move.  The callers test the value for
\* truthiness, so None and 0.0 both mean "no exit time".
NoDays == [some |-> FALSE, num |-> 0, den |-> 1]

days_to_sign_exit(longitude, speed) ==
    LET d == longitude % SignSpan
    IN IF speed > 0 THEN [some |-> TRUE, num |-> SignSpan - d, den |-> speed]
       ELSE IF speed < 0 THEN [some |-> TRUE, num |-> d, den |-> -speed]
       ELSE NoDays

Truthy(days) == days.some /\ days.num # 0

\* days_to_perfect > days_to_exit, where days_to_perfect = orb / rel
\* (float('inf') when rel = 0) and days_to_exit is truthy
ExitsBefore(orb, rel, days) ==
    /\ Truthy(days)
    /\ IF rel = 0 THEN TRUE ELSE orb * days.den > days.num * rel

\* check_aspect_separation_order(lon_a, speed_a, lon_c, speed_c, degrees, jd):
\* is the pair moving away from the exact aspect (orb growing with time)
check_aspect_separation_order(lonA, speedA, lonC, speedC, degrees) ==
    LET orbNow  == Abs(calculate_elongation(lonA, lonC) - degrees)
        \* one tenth of a day later, angles scaled by 10
        sepNext == LET d == Abs(10 * (lonA - lonC) + (speedA - speedC)) % (10 * Circle)
                   IN IF d > 10 * Deg(180) THEN 10 * Circle - d ELSE d
        orbNext == Abs(sepNext - 10 * degrees)
    IN [is_separating |-> orbNext > 10 * orbNow]

----------------------------------------------------------------------------
(* calculator.py: EnhancedTraditionalAstrologicalCalculator *)

_get_sign(longitude) == (longitude % Circle) \div SignSpan

\* the house lookup with arcs closed at both ends
RECURSIVE HouseFromClosedArcs(_, _, _)
HouseFromClosedArcs(i, longitude, houses) ==
    IF i > 11 THEN 1
    ELSE LET current_cusp == houses[i + 1] % Circle
             next_cusp    == houses[((i + 1) % 12) + 1] % Circle
             inArc == IF current_cusp > next_cusp
                      THEN longitude >= current_cusp \/ longitude <= next_cusp
                      ELSE current_cusp <= longitude /\ longitude <= next_cusp
         IN IF inArc THEN i + 1 ELSE HouseFromClosedArcs(i + 1, longitude, houses)

\* the house lookup without the arc that crosses 0 degrees
RECURSIVE HouseFromNoWrap(_, _, _)
HouseFromNoWrap(i, longitude, houses) ==
    IF i > 11 THEN 1
    ELSE LET current_cusp == houses[i + 1] % Circle
             next_cusp    == houses[((i + 1) % 12) + 1] % Circle
         IN IF current_cusp <= longitude /\ longitude < next_cusp THEN i + 1
            ELSE HouseFromNoWrap(i + 1, longitude, houses)

HousePositionWithoutWrap(longitude, houses) ==
    HouseFromNoWrap(0, longitude % Circle, houses)

\* _calculate_house_position: first arc [cusp i, cusp i+1) holding the longitude
RECURSIVE HouseFrom(_, _, _)
HouseFrom(i, longitude, houses) ==
    IF i > 11 THEN 1
    ELSE LET current_cusp == houses[i + 1] % Circle
             next_cusp    == houses[((i + 1) % 12) + 1] % Circle
             inArc == IF current_cusp > next_cusp
                      THEN longitude >= current_cusp \/ longitude < next_cusp
                      ELSE current_cusp <= longitude /\ longitude < next_cusp
         IN IF inArc THEN i + 1 ELSE HouseFrom(i + 1, longitude, houses)

_calculate_house_position(longitude, houses) ==
    HouseFrom(0, longitude % Circle, houses)

\* get_real_moon_speed: |speed| of a fresh Moon lookup, the configured default
\* when that lookup fails
get_real_moon_speed(cfg, eph) ==
    IF eph["Moon"].ok THEN Abs(eph["Moon"].speed)
    ELSE cfg.default_moon_speed_fallback

\* _check_enhanced_combustion_exception
\* a visibility exception without the minimum elongation
CombustionExceptionWithoutMinimum(planet, planet_pos, sun_pos, sun_altitude) ==
    LET elongation == calculate_elongation(planet_pos.longitude, sun_pos.longitude)
    IN IF planet = "Mercury"
       THEN \/ planet_pos.sign \in {SignOf("Gemini"), SignOf("Virgo")}
            \/ elongation >= Deg(18)
       ELSE IF planet = "Venus"
       THEN sun_altitude <= -Deg(8) \/ elongation >= Deg(40)
       ELSE FALSE

_check_enhanced_combustion_exception(planet, planet_pos, sun_pos, sun_altitude) ==
    LET elongation == calculate_elongation(planet_pos.longitude, sun_pos.longitude)
    IN IF elongation < Deg(10) THEN FALSE
       ELSE IF planet = "Mercury"
            THEN \/ (elongation >= Deg(10)
                       /\ planet_pos.sign \in {SignOf("Gemini"), SignOf("Virgo")})
                 \/ elongation >= Deg(18)
       ELSE IF planet = "Venus"
            THEN elongation >= Deg(10)
                   /\ (sun_altitude <= -Deg(8) \/ elongation >= Deg(40))
       ELSE FALSE

SolarRec(planet, dist, cond, exact, exc) ==
    [planet |-> planet, distance_from_sun |-> dist, condition |-> cond,
     exact_cazimi |-> exact, traditional_exception |-> exc]

\* a solar hierarchy whose combustion band lets no exception through
SolarConditionWithoutCombustionException(cfg, planet, planet_pos, sun_pos, sun_altitude) ==
    IF planet = "Sun" THEN SolarRec(planet, 0, "FREE", FALSE, FALSE)
    ELSE
    LET elongation == calculate_elongation(planet_pos.longitude, sun_pos.longitude)
        traditional_exception ==
            IF planet \in CombustionResistant
            THEN _check_enhanced_combustion_exception(planet, planet_pos, sun_pos,
                                                      sun_altitude)
            ELSE FALSE
    IN IF elongation <= cfg.cazimi_orb_arcmin
       THEN SolarRec(planet, elongation, "CAZIMI", elongation <= 3, FALSE)
       ELSE IF elongation <= cfg.combustion_orb
       THEN SolarRec(planet, elongation, "COMBUSTION", FALSE, FALSE)
       ELSE IF elongation <= cfg.under_beams_orb
       THEN IF traditional_exception
            THEN SolarRec(planet, elongation, "FREE", FALSE, TRUE)
            ELSE SolarRec(planet, elongation, "UNDER_BEAMS", FALSE, FALSE)
       ELSE SolarRec(planet, elongation, "FREE", FALSE, FALSE)

\* _analyze_enhanced_solar_condition
_analyze_enhanced_solar_condition(cfg, planet, planet_pos, sun_pos, sun_altitude) ==
    IF planet = "Sun" THEN SolarRec(planet, 0, "FREE", FALSE, FALSE)
    ELSE
    LET elongation == calculate_elongation(planet_pos.longitude, sun_pos.longitude)
        cazimi_orb == cfg.cazimi_orb_arcmin
        combustion_orb == cfg.combustion_orb
        under_beams_orb == cfg.under_beams_orb
        traditional_exception ==
            IF planet \in CombustionResistant
            THEN _check_enhanced_combustion_exception(planet, planet_pos, sun_pos,
                                                      sun_altitude)
            ELSE FALSE
    IN IF elongation <= cazimi_orb
       THEN SolarRec(planet, elongation, "CAZIMI", elongation <= 3, FALSE)
       ELSE IF elongation <= combustion_orb
       THEN IF traditional_exception
            THEN SolarRec(planet, elongation, "FREE", FALSE, TRUE)
            ELSE SolarRec(planet, elongation, "COMBUSTION", FALSE, FALSE)
       ELSE IF elongation <= under_beams_orb
       THEN IF traditional_exception
            THEN SolarRec(planet, elongation, "FREE", FALSE, TRUE)
            ELSE SolarRec(planet, elongation, "UNDER_BEAMS", FALSE, FALSE)
       ELSE SolarRec(planet, elongation, "FREE", FALSE, FALSE)

\* _calculate_enhanced_dignity
_calculate_enhanced_dignity(cfg, planet, sign, house, solar_analysis) ==
    LET rulership  == IF SignRuler(sign) = planet THEN cfg.dignity.rulership ELSE 0
        exaltation == IF Exaltation(planet) = sign THEN cfg.dignity.exaltation ELSE 0
        detriment  == IF sign \in DetrimentSigns(planet) THEN cfg.dignity.detriment ELSE 0
        fall       == IF Fall(planet) = sign THEN cfg.dignity.fall ELSE 0
        joy        == IF HouseJoy(planet) = house THEN cfg.dignity.joy ELSE 0
        angularity == IF house \in {1, 4, 7, 10} THEN cfg.dignity.angular
                      ELSE IF house \in {2, 5, 8, 11} THEN cfg.dignity.succedent
                      ELSE IF house \in {3, 6, 9, 12} THEN cfg.dignity.cadent
                      ELSE 0
        condition  == solar_analysis.condition
        solar      == IF condition = "CAZIMI"
                      THEN IF solar_analysis.exact_cazimi
                           THEN cfg.solar.exact_cazimi_bonus
                           ELSE cfg.solar.cazimi_bonus
                      ELSE IF condition = "COMBUSTION"
                      THEN IF ~solar_analysis.traditional_exception
                           THEN -cfg.solar.combustion_penalty ELSE 0
                      ELSE IF condition = "UNDER_BEAMS"
                      THEN IF ~solar_analysis.traditional_exception
                           THEN -cfg.solar.under_beams_penalty ELSE 0
                      ELSE 0
    IN rulership + exaltation + detriment + fall + joy + angularity + solar

\* "while x > 180: x -= 360; while x < -180: x += 360", for angles scaled by k
RECURSIVE Normalize180(_, _)
Normalize180(x, k) ==
    IF x > k * Deg(180) THEN Normalize180(x - k * Circle, k)
    ELSE IF x < -(k * Deg(180)) THEN Normalize180(x + k * Circle, k)
    ELSE x

\* min(targets, key=lambda t: abs(separation - t)): the first of the closest
ClosestTarget(targets, separation) ==
    LET best == CHOOSE i \in 1..Len(targets) :
                    /\ \A j \in 1..Len(targets) :
                          Abs(separation - targets[i]) <= Abs(separation - targets[j])
                    /\ \A j \in 1..(i - 1) :
                          Abs(separation - targets[j]) > Abs(separation - targets[i])
    IN targets[best]

\* _is_applying_enhanced
_is_applying_enhanced(cfg, pos1, pos2, aspect) ==
    LET firstFaster == Abs(pos1.speed) > Abs(pos2.speed)
        faster == IF firstFaster THEN pos1 ELSE pos2
        slower == IF firstFaster THEN pos2 ELSE pos1
        separation == Normalize180(faster.longitude - slower.longitude, 1)
        target == AspectDegrees(aspect)
        targets == IF target # 0 /\ target # Deg(180)
                   THEN <<target, -target, target - Circle, -target + Circle>>
                   ELSE <<target, -target>>
        closest_target == ClosestTarget(targets, separation)
        current_orb == Abs(separation - closest_target)
        rel == Abs(faster.speed - slower.speed)
        faster_days_to_exit == days_to_sign_exit(faster.longitude, faster.speed)
        slower_days_to_exit == days_to_sign_exit(slower.longitude, slower.speed)
        \* time_increment = num/den days; angles below are scaled by den
        num == cfg.timing_precision_days.num
        den == cfg.timing_precision_days.den
        future_separation ==
            Normalize180(den * separation + (faster.speed - slower.speed) * num, den)
        future_orb == Abs(future_separation - den * closest_target)
    IN IF ExitsBefore(current_orb, rel, faster_days_to_exit) THEN FALSE
       ELSE IF ExitsBefore(current_orb, rel, slower_days_to_exit) THEN FALSE
       ELSE future_orb < den * current_orb

\* degrees to exact with a floor of half a degree instead of 0.1 degree
DegreesToExactHalfDegreeFloor(pos1, pos2, aspect) ==
    LET separation == LET d == Abs(pos1.longitude - pos2.longitude)
                      IN IF d > Deg(180) THEN Circle - d ELSE d
        orb_from_exact == Abs(separation - AspectDegrees(aspect))
    IN IF orb_from_exact < 30 THEN 30 ELSE orb_from_exact

\* the degrees to exact measured from the first planet only, without abs()
DegreesToExactFromFirst(pos1, pos2, aspect) ==
    LET separation == LET d == (pos1.longitude - pos2.longitude) % Circle
                      IN IF d > Deg(180) THEN d - Circle ELSE d
        orb_from_exact == Abs(separation - AspectDegrees(aspect))
    IN IF orb_from_exact < 6 THEN 6 ELSE orb_from_exact

\* _calculate_enhanced_degrees_to_exact (the degrees; the estimated wall-clock
\* instant of exactness is display data no judgment reads)
_calculate_enhanced_degrees_to_exact(pos1, pos2, aspect) ==
    LET separation == LET d == Abs(pos1.longitude - pos2.longitude)
                      IN IF d > Deg(180) THEN Circle - d ELSE d
        orb_from_exact == Abs(separation - AspectDegrees(aspect))
    IN IF orb_from_exact < 6 THEN 6 ELSE orb_from_exact

\* the planet pairs "for i, planet1 ...: for planet2 in planet_list[i+1:]"
RECURSIVE PairsFrom(_, _)
PairsFrom(i, j) ==
    IF i >= Len(PlanetSeq) THEN <<>>
    ELSE IF j > Len(PlanetSeq) THEN PairsFrom(i + 1, i + 2)
    ELSE <<<<PlanetSeq[i], PlanetSeq[j]>>>> \o PairsFrom(i, j + 1)

PlanetPairs == PairsFrom(1, 2)

\* the aspect of one pair: the first aspect type within its maximum orb
PairAspect(cfg, planets, planet1, planet2) ==
    LET pos1 == planets[planet1]
        pos2 == planets[planet2]
        angle_diff == LET d == Abs(pos1.longitude - pos2.longitude)
                      IN IF d > Deg(180) THEN Circle - d ELSE d
        orb_diff(a) == Abs(angle_diff - AspectDegrees(a))
        max_orb(a) == AspectOrb(cfg, a)
                        + (IF "Sun" \in {planet1, planet2} THEN cfg.sun_orb_bonus ELSE 0)
                        + (IF "Moon" \in {planet1, planet2} THEN cfg.moon_orb_bonus ELSE 0)
        hits == {i \in 1..Len(AspectSeq) : orb_diff(AspectSeq[i]) <= max_orb(AspectSeq[i])}
    IN IF hits = {} THEN <<>>
       ELSE LET a == AspectSeq[CHOOSE i \in hits : \A j \in hits : i <= j]
            IN <<[planet1 |-> planet1, planet2 |-> planet2, aspect |-> a,
                  orb |-> orb_diff(a),
                  applying |-> _is_applying_enhanced(cfg, pos1, pos2, a),
                  degrees_to_exact |->
                      _calculate_enhanced_degrees_to_exact(pos1, pos2, a)]>>

RECURSIVE AspectsFrom(_, _, _)
AspectsFrom(cfg, planets, k) ==
    IF k > Len(PlanetPairs) THEN <<>>
    ELSE PairAspect(cfg, planets, PlanetPairs[k][1], PlanetPairs[k][2])
            \o AspectsFrom(cfg, planets, k + 1)

\* _calculate_enhanced_aspects
_calculate_enhanced_aspects(cfg, planets) == AspectsFrom(cfg, planets, 1)

\* _format_timing_description / _format_timing_description_enhanced, for a time
\* of num/den days (den = 0: float('inf')): the wording and the number in it
format_timing(num, den) ==
    IF den = 0 THEN [text |-> "More than a year", n |-> 0]
    ELSE IF 2 * num < den THEN [text |-> "Within hours", n |-> 0]
    ELSE IF num < den THEN [text |-> "Within a day", n |-> 0]
    ELSE IF num < 7 * den THEN [text |-> "Within days", n |-> num \div den]
    ELSE IF num < 30 * den THEN [text |-> "Within weeks", n |-> num \div (7 * den)]
    ELSE IF num < 365 * den THEN [text |-> "Within months", n |-> num \div (30 * den)]
    ELSE [text |-> "More than a year", n |-> 0]

\* _is_moon_applying_to_aspect: the Moon alone is moved, by 0.1 day at the real
\* Moon speed (angles scaled by 10)
_is_moon_applying_to_aspect(moon_pos, planet_pos, aspect, moon_speed) ==
    LET current_separation == LET d == Abs(moon_pos.longitude - planet_pos.longitude)
                              IN IF d > Deg(180) THEN Circle - d ELSE d
        future_moon_lon == (10 * moon_pos.longitude + moon_speed) % (10 * Circle)
        future_separation == LET d == Abs(future_moon_lon - 10 * planet_pos.longitude)
                             IN IF d > 10 * Deg(180) THEN 10 * Circle - d ELSE d
        current_orb == Abs(current_separation - AspectDegrees(aspect))
        future_orb == Abs(future_separation - 10 * AspectDegrees(aspect))
    IN future_orb < 10 * current_orb

NoLunarAspect ==
    [found |-> FALSE, planet |-> "Moon", aspect |-> "Conjunction", orb |-> 0,
     eta_num |-> 0, eta_den |-> 1,
     perfection_eta_description |-> [text |-> "none", n |-> 0]]

\* a.perfection_eta_days < b.perfection_eta_days (eta_den = 0 is float('inf'))
EtaLess(a, b) ==
    IF a.eta_den = 0 THEN FALSE
    ELSE IF b.eta_den = 0 THEN TRUE
    ELSE a.eta_num * b.eta_den < b.eta_num * a.eta_den

\* min(applying_aspects, key=perfection_eta_days): the first of the soonest
RECURSIVE SoonestFrom(_, _, _)
SoonestFrom(cands, k, best) ==
    IF k > Len(cands) THEN best
    ELSE SoonestFrom(cands, k + 1, IF EtaLess(cands[k], best) THEN cands[k] ELSE best)

\* _calculate_moon_next_aspect
_calculate_moon_next_aspect(cfg, planets, moon_speed) ==
    LET moon_pos == planets["Moon"]
        cand(planet, a) ==
            LET planet_pos == planets[planet]
                separation == LET d == Abs(moon_pos.longitude - planet_pos.longitude)
                              IN IF d > Deg(180) THEN Circle - d ELSE d
                orb_diff == Abs(separation - AspectDegrees(a))
                relative_speed == Abs(moon_speed - Abs(planet_pos.speed))
            IN IF /\ planet # "Moon"
                  /\ orb_diff <= AspectOrb(cfg, a)
                  /\ _is_moon_applying_to_aspect(moon_pos, planet_pos, a, moon_speed)
               THEN <<[found |-> TRUE, planet |-> planet, aspect |-> a, orb |-> orb_diff,
                       eta_num |-> orb_diff, eta_den |-> relative_speed,
                       perfection_eta_description |->
                           format_timing(orb_diff, relative_speed)]>>
               ELSE <<>>
        \* planets in dictionary order, aspect types in enumeration order
        all == [k \in 0..(Len(PlanetSeq) * Len(AspectSeq) - 1) |->
                   cand(PlanetSeq[(k \div Len(AspectSeq)) + 1],
                        AspectSeq[(k % Len(AspectSeq)) + 1])]
        RECURSIVE Collect(_)
        Collect(k) == IF k >= Len(PlanetSeq) * Len(AspectSeq) THEN <<>>
                      ELSE all[k] \o Collect(k + 1)
        applying_aspects == Collect(0)
    IN IF applying_aspects = <<>> THEN NoLunarAspect
       ELSE SoonestFrom(applying_aspects, 2, applying_aspects[1])

\* the degraded placeholder of a planet whose ephemeris lookup failed
PlaceholderPosition ==
    [longitude |-> 0, speed |-> 0, sign |-> SignOf("Aries"), house |-> 1,
     dignity_score |-> 0, retrograde |-> FALSE]

\* fallback cusps that all lie at 0 degrees
AllCuspsAtZero == [i \in 1..12 |-> 0]

\* the equal 30-degree cusps used when the house calculation failed
FallbackHouses == [i \in 1..12 |-> (i - 1) * Deg(30)]

\* calculate_chart
calculate_chart(cfg, e) ==
    LET raw == [p \in Planets |->
                  IF e.eph[p].ok
                  THEN [longitude |-> e.eph[p].lon, speed |-> e.eph[p].speed,
                        sign |-> _get_sign(e.eph[p].lon), house |-> 0,
                        dignity_score |-> 0, retrograde |-> e.eph[p].speed < 0]
                  ELSE PlaceholderPosition]
        houses == IF e.houses.ok THEN e.houses.cusps ELSE FallbackHouses
        ascendant == IF e.houses.ok THEN e.houses.ascendant ELSE 0
        midheaven == IF e.houses.ok THEN e.houses.midheaven ELSE Deg(90)
        house_rulers == [i \in 1..12 |-> SignRuler(_get_sign(houses[i]))]
        housed == [p \in Planets |->
                     [raw[p] EXCEPT !.house =
                         _calculate_house_position(raw[p].longitude, houses)]]
        solar_analyses == [p \in Planets |->
                     _analyze_enhanced_solar_condition(cfg, p, housed[p], housed["Sun"],
                                                       e.sun_altitude)]
        planets == [p \in Planets |->
                     [housed[p] EXCEPT !.dignity_score =
                         _calculate_enhanced_dignity(cfg, p, housed[p].sign,
                                                     housed[p].house, solar_analyses[p])]]
    IN [planets |-> planets,
        aspects |-> _calculate_enhanced_aspects(cfg, planets),
        houses |-> houses,
        house_rulers |-> house_rulers,
        ascendant |-> ascendant,
        midheaven |-> midheaven,
        solar_analyses |-> solar_analyses,
        moon_next_aspect |->
            _calculate_moon_next_aspect(cfg, planets, get_real_moon_speed(cfg, e.eph))]

----------------------------------------------------------------------------
(* judgment_engine.py: EnhancedTraditionalHoraryJudgmentEngine *)

\* a radicality check that forgets the early ascendant
RadicalityWithoutEarlyAscendant(cfg, ch, ignore_saturn_7th) ==
    LET asc_degree == ch.ascendant % SignSpan
    IN IF asc_degree > cfg.asc_too_late
       THEN [valid |-> FALSE, reason |-> "Ascendant too late"]
       ELSE IF /\ cfg.saturn_7th_enabled /\ ~ignore_saturn_7th
               /\ ch.planets["Saturn"].house = 7
       THEN [valid |-> FALSE, reason |-> "Saturn in 7th house"]
       ELSE [valid |-> TRUE, reason |-> "Chart is radical"]

\* a radicality check that forgets the late ascendant
RadicalityWithoutLateAscendant(cfg, ch, ignore_saturn_7th) ==
    LET asc_degree == ch.ascendant % SignSpan
    IN IF asc_degree < cfg.asc_too_early
       THEN [valid |-> FALSE, reason |-> "Ascendant too early"]
       ELSE IF /\ cfg.saturn_7th_enabled /\ ~ignore_saturn_7th
               /\ ch.planets["Saturn"].house = 7
       THEN [valid |-> FALSE, reason |-> "Saturn in 7th house"]
       ELSE [valid |-> TRUE, reason |-> "Chart is radical"]

\* _check_enhanced_radicality
_check_enhanced_radicality(cfg, ch, ignore_saturn_7th) ==
    LET asc_degree == ch.ascendant % SignSpan
        moon_pos == ch.planets["Moon"]
        moon_degree_in_sign == moon_pos.longitude % SignSpan
    IN IF asc_degree < cfg.asc_too_early
       THEN [valid |-> FALSE, reason |-> "Ascendant too early"]
       ELSE IF asc_degree > cfg.asc_too_late
       THEN [valid |-> FALSE, reason |-> "Ascendant too late"]
       ELSE IF /\ cfg.saturn_7th_enabled /\ ~ignore_saturn_7th
               /\ ch.planets["Saturn"].house = 7
       THEN [valid |-> FALSE, reason |-> "Saturn in 7th house"]
       ELSE IF /\ cfg.via_combusta_enabled
               /\ \/ (moon_pos.sign = SignOf("Libra")
                        /\ moon_degree_in_sign > cfg.via_combusta.libra_start)
                  \/ (moon_pos.sign = SignOf("Scorpio") /\ cfg.via_combusta.scorpio_full)
                  \/ (moon_pos.sign = SignOf("Capricorn")
                        /\ moon_degree_in_sign > cfg.via_combusta.capricorn_start)
       THEN [valid |-> FALSE, reason |-> "Moon in Via Combusta"]
       ELSE [valid |-> TRUE, reason |-> "Chart is radical"]

\* chart.house_rulers.get(house): None for a house the chart has no ruler of
NoPlanet == "None"

HouseRulerGet(ch, house) ==
    IF house \in DOMAIN ch.house_rulers THEN ch.house_rulers[house] ELSE NoPlanet

\* significators accepted although one planet rules both houses
SignificatorsWithoutSameRulerCheck(ch, quesited_house) ==
    LET querent_ruler == HouseRulerGet(ch, 1)
        quesited_ruler == HouseRulerGet(ch, quesited_house)
    IN IF querent_ruler = NoPlanet \/ quesited_ruler = NoPlanet
       THEN [valid |-> FALSE, reason |-> "Cannot determine house rulers",
             querent |-> NoPlanet, quesited |-> NoPlanet]
       ELSE [valid |-> TRUE, reason |-> "Significators",
             querent |-> querent_ruler, quesited |-> quesited_ruler]

\* _identify_significators
_identify_significators(ch, quesited_house) ==
    LET querent_ruler == HouseRulerGet(ch, 1)
        quesited_ruler == HouseRulerGet(ch, quesited_house)
    IN IF querent_ruler = NoPlanet \/ quesited_ruler = NoPlanet
       THEN [valid |-> FALSE, reason |-> "Cannot determine house rulers",
             querent |-> NoPlanet, quesited |-> NoPlanet]
       ELSE IF querent_ruler = quesited_ruler
       THEN [valid |-> FALSE, reason |-> "rules both querent and quesited",
             querent |-> NoPlanet, quesited |-> NoPlanet]
       ELSE [valid |-> TRUE, reason |-> "Significators",
             querent |-> querent_ruler, quesited |-> quesited_ruler]

\* _analyze_enhanced_solar_factors (the counts and flags the judgment reads)
_analyze_enhanced_solar_factors(ch, querent, quesited, ignore_combustion) ==
    LET cazimi_planets == {p \in Planets : ch.solar_analyses[p].condition = "CAZIMI"}
        combusted_planets ==
            {p \in Planets : ch.solar_analyses[p].condition = "COMBUSTION"
                             /\ ~ignore_combustion}
        under_beams_planets ==
            {p \in Planets : ch.solar_analyses[p].condition = "UNDER_BEAMS"
                             /\ ~ignore_combustion}
    IN [significant |-> cazimi_planets # {} \/ combusted_planets # {}
                          \/ under_beams_planets # {},
        cazimi_count |-> Cardinality(cazimi_planets),
        combustion_count |-> IF ~ignore_combustion
                             THEN Cardinality(combusted_planets) ELSE 0,
        under_beams_count |-> IF ~ignore_combustion
                              THEN Cardinality(under_beams_planets) ELSE 0,
        combustion_ignored |-> ignore_combustion]

NoAspect == [found |-> FALSE, aspect |-> "Conjunction", orb |-> 0, degrees_to_exact |-> 0]

\* _find_applying_aspect: the first applying aspect of the pair in chart.aspects
_find_applying_aspect(ch, planet1, planet2) ==
    LET hits == {k \in 1..Len(ch.aspects) :
                    /\ \/ (ch.aspects[k].planet1 = planet1 /\ ch.aspects[k].planet2 = planet2)
                       \/ (ch.aspects[k].planet1 = planet2 /\ ch.aspects[k].planet2 = planet1)
                    /\ ch.aspects[k].applying}
    IN IF hits = {} THEN NoAspect
       ELSE LET a == ch.aspects[CHOOSE k \in hits : \A j \in hits : k <= j]
            IN [found |-> TRUE, aspect |-> a.aspect, orb |-> a.orb,
                degrees_to_exact |-> a.degrees_to_exact]

\* _enhanced_perfects_in_sign
_enhanced_perfects_in_sign(pos1, pos2, aspect_info) ==
    LET days_to_exit_1 == days_to_sign_exit(pos1.longitude, pos1.speed)
        days_to_exit_2 == days_to_sign_exit(pos2.longitude, pos2.speed)
        relative_speed == Abs(pos1.speed - pos2.speed)
    IN IF relative_speed = 0 THEN FALSE
       ELSE IF ExitsBefore(aspect_info.degrees_to_exact, relative_speed, days_to_exit_1)
       THEN FALSE
       ELSE IF ExitsBefore(aspect_info.degrees_to_exact, relative_speed, days_to_exit_2)
       THEN FALSE
       ELSE TRUE

\* _check_enhanced_mutual_reception
_check_enhanced_mutual_reception(ch, planet1, planet2) ==
    LET pos1 == ch.planets[planet1]
        pos2 == ch.planets[planet2]
    IN IF SignRuler(pos1.sign) = planet2 /\ SignRuler(pos2.sign) = planet1
       THEN "mutual_rulership"
       ELSE IF Exaltation(planet1) = pos2.sign /\ Exaltation(planet2) = pos1.sign
       THEN "mutual_exaltation"
       ELSE IF \/ (SignRuler(pos1.sign) = planet2 /\ Exaltation(planet2) = pos1.sign)
               \/ (SignRuler(pos2.sign) = planet1 /\ Exaltation(planet1) = pos2.sign)
       THEN "mixed_reception"
       ELSE "none"

\* _is_aspect_favorable
_is_aspect_favorable(aspect, reception) ==
    IF reception \in {"mutual_rulership", "mutual_exaltation", "mixed_reception"}
    THEN TRUE
    ELSE aspect \in {"Conjunction", "Sextile", "Trine"}

NoHelper == [found |-> FALSE, planet |-> NoPlanet, sequence |-> "none"]

\* a translation search that finds nothing
TranslationNeverFound(cfg, ch, querent, quesited) == NoHelper

\* a translation search that does not look at require_speed_advantage
TranslationIgnoringSpeedFlag(cfg, ch, querent, quesited) ==
    LET sequence_of(planet) ==
            LET pos == ch.planets[planet]
                aspect_to_querent == _find_applying_aspect(ch, planet, querent)
                aspect_to_quesited == _find_applying_aspect(ch, planet, quesited)
                querent_separation ==
                    check_aspect_separation_order(
                        ch.planets[querent].longitude, ch.planets[querent].speed,
                        pos.longitude, pos.speed,
                        AspectDegrees(aspect_to_querent.aspect))
                quesited_separation ==
                    check_aspect_separation_order(
                        ch.planets[quesited].longitude, ch.planets[quesited].speed,
                        pos.longitude, pos.speed,
                        AspectDegrees(aspect_to_quesited.aspect))
            IN IF ~(aspect_to_querent.found /\ aspect_to_quesited.found) THEN "none"
               ELSE IF ~cfg.translation.require_proper_sequence THEN "connecting"
               ELSE IF /\ querent_separation.is_separating
                       /\ aspect_to_quesited.degrees_to_exact
                            < aspect_to_querent.degrees_to_exact
               THEN "separating from querent, applying to quesited"
               ELSE IF /\ quesited_separation.is_separating
                       /\ aspect_to_querent.degrees_to_exact
                            < aspect_to_quesited.degrees_to_exact
               THEN "separating from quesited, applying to querent"
               ELSE "none"
        hits == {i \in 1..Len(PlanetSeq) :
                    /\ PlanetSeq[i] \notin {querent, quesited}
                    /\ sequence_of(PlanetSeq[i]) # "none"}
    IN IF hits = {} THEN NoHelper
       ELSE LET planet == PlanetSeq[CHOOSE i \in hits : \A j \in hits : i <= j]
            IN [found |-> TRUE, planet |-> planet, sequence |-> sequence_of(planet)]

\* _check_enhanced_translation_of_light: the first planet, in dictionary order,
\* that is neither significator and connects both
_check_enhanced_translation_of_light(cfg, ch, querent, quesited) ==
    LET sequence_of(planet) ==
            LET pos == ch.planets[planet]
                aspect_to_querent == _find_applying_aspect(ch, planet, querent)
                aspect_to_quesited == _find_applying_aspect(ch, planet, quesited)
                querent_separation ==
                    check_aspect_separation_order(
                        ch.planets[querent].longitude, ch.planets[querent].speed,
                        pos.longitude, pos.speed,
                        AspectDegrees(aspect_to_querent.aspect))
                quesited_separation ==
                    check_aspect_separation_order(
                        ch.planets[quesited].longitude, ch.planets[quesited].speed,
                        pos.longitude, pos.speed,
                        AspectDegrees(aspect_to_quesited.aspect))
            IN IF ~(aspect_to_querent.found /\ aspect_to_quesited.found) THEN "none"
               ELSE IF ~cfg.translation.require_proper_sequence THEN "connecting"
               ELSE IF /\ querent_separation.is_separating
                       /\ aspect_to_quesited.degrees_to_exact
                            < aspect_to_querent.degrees_to_exact
               THEN "separating from querent, applying to quesited"
               ELSE IF /\ quesited_separation.is_separating
                       /\ aspect_to_querent.degrees_to_exact
                            < aspect_to_quesited.degrees_to_exact
               THEN "separating from quesited, applying to querent"
               ELSE "none"
        hits == {i \in 1..Len(PlanetSeq) :
                    /\ PlanetSeq[i] \notin {querent, quesited}
                    /\ sequence_of(PlanetSeq[i]) # "none"}
    IN IF cfg.translation.require_speed_advantage \/ hits = {} THEN NoHelper
       ELSE LET planet == PlanetSeq[CHOOSE i \in hits : \A j \in hits : i <= j]
            IN [found |-> TRUE, planet |-> planet, sequence |-> sequence_of(planet)]

\* _check_enhanced_collection_of_light
_check_enhanced_collection_of_light(cfg, ch, querent, quesited) ==
    LET querent_pos == ch.planets[querent]
        quesited_pos == ch.planets[quesited]
        querent_days_to_sign ==
            days_to_sign_exit(querent_pos.longitude, querent_pos.speed)
        quesited_days_to_sign ==
            days_to_sign_exit(quesited_pos.longitude, quesited_pos.speed)
        collects(planet) ==
            LET pos == ch.planets[planet]
                aspects_from_querent == _find_applying_aspect(ch, querent, planet)
                aspects_from_quesited == _find_applying_aspect(ch, quesited, planet)
                rel_querent == Abs(querent_pos.speed - pos.speed)
                rel_quesited == Abs(quesited_pos.speed - pos.speed)
                \* max_collection_days > days: one of the two quotients is greater
                \* (a quotient over a zero relative speed counts as 0 days)
                later(days) ==
                    \/ (rel_querent > 0
                          /\ aspects_from_querent.degrees_to_exact * days.den
                               > days.num * rel_querent)
                    \/ (rel_quesited > 0
                          /\ aspects_from_quesited.degrees_to_exact * days.den
                               > days.num * rel_quesited)
            IN /\ aspects_from_querent.found /\ aspects_from_quesited.found
               /\ ~(cfg.collection.require_collector_dignity
                      /\ pos.dignity_score < cfg.collection.minimum_dignity_score)
               /\ ~(Truthy(querent_days_to_sign) /\ later(querent_days_to_sign))
               /\ ~(Truthy(quesited_days_to_sign) /\ later(quesited_days_to_sign))
        hits == {i \in 1..Len(PlanetSeq) :
                    PlanetSeq[i] \notin {querent, quesited} /\ collects(PlanetSeq[i])}
    IN IF hits = {} THEN NoHelper
       ELSE [found |-> TRUE,
             planet |-> PlanetSeq[CHOOSE i \in hits : \A j \in hits : i <= j],
             sequence |-> "collection"]

Perfection(perfects, type, favorable, confidence, reception, aspect, helper) ==
    [perfects |-> perfects, type |-> type, favorable |-> favorable,
     confidence |-> confidence, reception |-> reception,
     aspect |-> aspect, helper |-> helper]

\* a perfection search that looks for a collector before a translator
PerfectionCollectionFirst(cfg, ch, querent, quesited, exaltation_confidence_boost) ==
    LET querent_pos == ch.planets[querent]
        quesited_pos == ch.planets[quesited]
        direct_aspect == _find_applying_aspect(ch, querent, quesited)
        reception == _check_enhanced_mutual_reception(ch, querent, quesited)
        translation == _check_enhanced_translation_of_light(cfg, ch, querent, quesited)
        collection == _check_enhanced_collection_of_light(cfg, ch, querent, quesited)
    IN IF /\ direct_aspect.found
          /\ _enhanced_perfects_in_sign(querent_pos, quesited_pos, direct_aspect)
       THEN IF reception = "mutual_rulership"
            THEN Perfection(TRUE, "direct", TRUE,
                            cfg.perfection.direct_with_mutual_rulership,
                            reception, direct_aspect, NoPlanet)
            ELSE IF reception = "mutual_exaltation"
            THEN Perfection(TRUE, "direct", TRUE,
                            Min2(100, cfg.perfection.direct_with_mutual_exaltation
                                        + exaltation_confidence_boost),
                            reception, direct_aspect, NoPlanet)
            ELSE Perfection(TRUE, "direct",
                            _is_aspect_favorable(direct_aspect.aspect, reception),
                            cfg.perfection.direct_basic,
                            reception, direct_aspect, NoPlanet)
       ELSE IF collection.found
       THEN Perfection(TRUE, "collection", TRUE, cfg.perfection.collection_of_light,
                       "none", NoAspect, collection.planet)
       ELSE IF translation.found
       THEN Perfection(TRUE, "translation", TRUE, cfg.perfection.translation_of_light,
                       "none", NoAspect, translation.planet)
       ELSE IF reception = "mutual_rulership"
       THEN Perfection(TRUE, "reception", TRUE, cfg.perfection.reception_only,
                       reception, NoAspect, NoPlanet)
       ELSE IF reception = "mutual_exaltation"
       THEN Perfection(TRUE, "reception", TRUE,
                       Min2(100, cfg.perfection.reception_only
                                   + exaltation_confidence_boost),
                       reception, NoAspect, NoPlanet)
       ELSE Perfection(FALSE, "none", FALSE, 0, "none", NoAspect, NoPlanet)

\* a perfection search in which mutual rulership does not override the
\* favorability of the aspect type
PerfectionRulershipByAspectType(cfg, ch, querent, quesited, exaltation_confidence_boost) ==
    LET querent_pos == ch.planets[querent]
        quesited_pos == ch.planets[quesited]
        direct_aspect == _find_applying_aspect(ch, querent, quesited)
        reception == _check_enhanced_mutual_reception(ch, querent, quesited)
        translation == _check_enhanced_translation_of_light(cfg, ch, querent, quesited)
        collection == _check_enhanced_collection_of_light(cfg, ch, querent, quesited)
    IN IF /\ direct_aspect.found
          /\ _enhanced_perfects_in_sign(querent_pos, quesited_pos, direct_aspect)
       THEN IF reception = "mutual_rulership"
            THEN Perfection(TRUE, "direct",
                            _is_aspect_favorable(direct_aspect.aspect, "none"),
                            cfg.perfection.direct_with_mutual_rulership,
                            reception, direct_aspect, NoPlanet)
            ELSE IF reception = "mutual_exaltation"
            THEN Perfection(TRUE, "direct", TRUE,
                            Min2(100, cfg.perfection.direct_with_mutual_exaltation
                                        + exaltation_confidence_boost),
                            reception, direct_aspect, NoPlanet)
            ELSE Perfection(TRUE, "direct",
                            _is_aspect_favorable(direct_aspect.aspect, reception),
                            cfg.perfection.direct_basic,
                            reception, direct_aspect, NoPlanet)
       ELSE IF translation.found
       THEN Perfection(TRUE, "translation", TRUE, cfg.perfection.translation_of_light,
                       "none", NoAspect, translation.planet)
       ELSE IF collection.found
       THEN Perfection(TRUE, "collection", TRUE, cfg.perfection.collection_of_light,
                       "none", NoAspect, collection.planet)
       ELSE IF reception = "mutual_rulership"
       THEN Perfection(TRUE, "reception", TRUE, cfg.perfection.reception_only,
                       reception, NoAspect, NoPlanet)
       ELSE IF reception = "mutual_exaltation"
       THEN Perfection(TRUE, "reception", TRUE,
                       Min2(100, cfg.perfection.reception_only
                                   + exaltation_confidence_boost),
                       reception, NoAspect, NoPlanet)
       ELSE Perfection(FALSE, "none", FALSE, 0, "none", NoAspect, NoPlanet)

\* _check_enhanced_perfection
_check_enhanced_perfection(cfg, ch, querent, quesited, exaltation_confidence_boost) ==
    LET querent_pos == ch.planets[querent]
        quesited_pos == ch.planets[quesited]
        direct_aspect == _find_applying_aspect(ch, querent, quesited)
        reception == _check_enhanced_mutual_reception(ch, querent, quesited)
        translation == _check_enhanced_translation_of_light(cfg, ch, querent, quesited)
        collection == _check_enhanced_collection_of_light(cfg, ch, querent, quesited)
    IN IF /\ direct_aspect.found
          /\ _enhanced_perfects_in_sign(querent_pos, quesited_pos, direct_aspect)
       THEN IF reception = "mutual_rulership"
            THEN Perfection(TRUE, "direct", TRUE,
                            cfg.perfection.direct_with_mutual_rulership,
                            reception, direct_aspect, NoPlanet)
            ELSE IF reception = "mutual_exaltation"
            THEN Perfection(TRUE, "direct", TRUE,
                            Min2(100, cfg.perfection.direct_with_mutual_exaltation
                                        + exaltation_confidence_boost),
                            reception, direct_aspect, NoPlanet)
            ELSE Perfection(TRUE, "direct",
                            _is_aspect_favorable(direct_aspect.aspect, reception),
                            cfg.perfection.direct_basic,
                            reception, direct_aspect, NoPlanet)
       ELSE IF translation.found
       THEN Perfection(TRUE, "translation", TRUE, cfg.perfection.translation_of_light,
                       "none", NoAspect, translation.planet)
       ELSE IF collection.found
       THEN Perfection(TRUE, "collection", TRUE, cfg.perfection.collection_of_light,
                       "none", NoAspect, collection.planet)
       ELSE IF reception = "mutual_rulership"
       THEN Perfection(TRUE, "reception", TRUE, cfg.perfection.reception_only,
                       reception, NoAspect, NoPlanet)
       ELSE IF reception = "mutual_exaltation"
       THEN Perfection(TRUE, "reception", TRUE,
                       Min2(100, cfg.perfection.reception_only
                                   + exaltation_confidence_boost),
                       reception, NoAspect, NoPlanet)
       ELSE Perfection(FALSE, "none", FALSE, 0, "none", NoAspect, NoPlanet)

TimingUncertain == [text |-> "Timing uncertain", n |-> 0]

\* _calculate_enhanced_timing
_calculate_enhanced_timing(moon_speed, perfection) ==
    IF perfection.aspect.found
    THEN format_timing(perfection.aspect.degrees_to_exact, moon_speed)
    ELSE TimingUncertain

\* _check_enhanced_denial_conditions
_check_enhanced_denial_conditions(cfg, ch, querent, quesited) ==
    LET querent_pos == ch.planets[querent]
        quesited_pos == ch.planets[quesited]
        sig_aspect == _find_applying_aspect(ch, querent, quesited)
        prohibits(aspect) ==
            /\ (aspect.planet1 = "Saturn" \/ aspect.planet2 = "Saturn")
            /\ aspect.applying
            /\ (IF aspect.planet1 = "Saturn" THEN aspect.planet2 ELSE aspect.planet1)
                  \in {querent, quesited}
            /\ sig_aspect.found
            /\ aspect.degrees_to_exact < sig_aspect.degrees_to_exact
    IN IF \E k \in 1..Len(ch.aspects) : prohibits(ch.aspects[k])
       THEN [denied |-> TRUE, confidence |-> cfg.denial.prohibition,
             reason |-> "Prohibition by Saturn"]
       ELSE IF cfg.retrograde_automatic_denial
               /\ (querent_pos.retrograde \/ quesited_pos.retrograde)
       THEN [denied |-> TRUE, confidence |-> cfg.denial.frustration_retrograde,
             reason |-> "Frustration"]
       ELSE [denied |-> FALSE, confidence |-> 0, reason |-> "none"]

\* aspect points taken on one side of the planet only
AspectPositionsForwardOnly(planet_longitude, aspect, moon_sign) ==
    LET aspect_positions == <<(planet_longitude + AspectDegrees(aspect)) % Circle>>
        sign_start == SignStart(moon_sign)
        sign_end == (sign_start + Deg(30)) % Circle
        inSign(pos) == IF sign_start < sign_end
                       THEN sign_start <= pos /\ pos < sign_end
                       ELSE pos >= sign_start \/ pos < sign_end
    IN SelectSeq(aspect_positions, inSign)

\* _calculate_aspect_positions: the aspect points of a planet that lie in the
\* Moon's sign (the conjunction point is listed twice, as in the code)
_calculate_aspect_positions(planet_longitude, aspect, moon_sign) ==
    LET aspect_positions == <<(planet_longitude + AspectDegrees(aspect)) % Circle,
                              (planet_longitude - AspectDegrees(aspect)) % Circle>>
        sign_start == SignStart(moon_sign)
        sign_end == (sign_start + Deg(30)) % Circle
        inSign(pos) == IF sign_start < sign_end
                       THEN sign_start <= pos /\ pos < sign_end
                       ELSE pos >= sign_start \/ pos < sign_end
    IN SelectSeq(aspect_positions, inSign)

\* _void_by_sign_method
_void_by_sign_method(cfg, ch) ==
    LET moon_pos == ch.planets["Moon"]
        moon_degree_in_sign == moon_pos.longitude % SignSpan
        degrees_left_in_sign == SignSpan - moon_degree_in_sign
        future(planet, aspect_type) ==
            LET target_moon_positions ==
                    _calculate_aspect_positions(ch.planets[planet].longitude,
                                                aspect_type, moon_pos.sign)
            IN \E k \in 1..Len(target_moon_positions) :
                  LET target_degree_in_sign == target_moon_positions[k] % SignSpan
                  IN /\ target_degree_in_sign > moon_degree_in_sign
                     /\ target_degree_in_sign - moon_degree_in_sign
                          < degrees_left_in_sign
        has_future_aspects ==
            \E planet \in Planets \ {"Moon"} : \E aspect_type \in AspectTypes :
                future(planet, aspect_type)
        exceptions ==
            \/ (moon_pos.sign = SignOf("Cancer") /\ cfg.void_exceptions.cancer)
            \/ (moon_pos.sign = SignOf("Sagittarius") /\ cfg.void_exceptions.sagittarius)
            \/ (moon_pos.sign = SignOf("Taurus") /\ cfg.void_exceptions.taurus)
    IN IF Abs(moon_pos.speed) < cfg.stationary_speed_threshold
       THEN [void |-> FALSE, exception |-> FALSE, reason |-> "Moon stationary",
             degrees_left_in_sign |-> degrees_left_in_sign]
       ELSE [void |-> ~has_future_aspects, exception |-> exceptions,
             reason |-> IF has_future_aspects THEN "Moon will aspect"
                        ELSE "Moon makes no more aspects before leaving sign",
             degrees_left_in_sign |-> degrees_left_in_sign]

\* _void_by_orb_method
_void_by_orb_method(cfg, ch) ==
    LET moon_pos == ch.planets["Moon"]
        separation(planet) ==
            LET d == Abs(moon_pos.longitude - ch.planets[planet].longitude)
            IN IF d > Deg(180) THEN Circle - d ELSE d
        within == \E planet \in Planets \ {"Moon"} : \E aspect_type \in AspectTypes :
                     Abs(separation(planet) - AspectDegrees(aspect_type)) <= cfg.void_orb_deg
    IN [void |-> ~within, exception |-> FALSE,
        reason |-> IF within THEN "Moon within orb of aspect"
                   ELSE "Moon not within orb of any aspect",
        degrees_left_in_sign |-> 0]

LillyExceptions ==
    {SignOf("Cancer"), SignOf("Taurus"), SignOf("Sagittarius"), SignOf("Pisces")}

\* a Lilly method in which an exception cancels the voidness
LillyExceptionCancelsVoid(cfg, ch) ==
    LET exception == ch.planets["Moon"].sign \in LillyExceptions
        void_result == _void_by_sign_method(cfg, ch)
    IN [void_result EXCEPT !.exception = exception,
                           !.void = void_result.void /\ ~exception]

\* _void_lilly_method
_void_lilly_method(cfg, ch) ==
    LET exception == ch.planets["Moon"].sign \in LillyExceptions
        void_result == _void_by_sign_method(cfg, ch)
    IN [void_result EXCEPT !.exception = exception]

\* _is_moon_void_of_course_enhanced
_is_moon_void_of_course_enhanced(cfg, ch) ==
    IF cfg.void_rule = "by_sign" THEN _void_by_sign_method(cfg, ch)
    ELSE IF cfg.void_rule = "by_orb" THEN _void_by_orb_method(cfg, ch)
    ELSE IF cfg.void_rule = "lilly" THEN _void_lilly_method(cfg, ch)
    ELSE _void_by_sign_method(cfg, ch)

\* _moon_phase_bonus
_moon_phase_bonus(cfg, ch) ==
    LET elongation == LET d == Abs(ch.planets["Moon"].longitude
                                     - ch.planets["Sun"].longitude)
                      IN IF d > Deg(180) THEN Circle - d ELSE d
    IN IF elongation < Deg(30) THEN cfg.phase_bonus.new_moon
       ELSE IF elongation < Deg(60) THEN cfg.phase_bonus.waxing_crescent
       ELSE IF elongation < Deg(120) THEN cfg.phase_bonus.first_quarter
       ELSE IF elongation < Deg(150) THEN cfg.phase_bonus.waxing_gibbous
       ELSE IF elongation < Deg(210) THEN cfg.phase_bonus.full_moon
       ELSE IF elongation < Deg(240) THEN cfg.phase_bonus.waning_gibbous
       ELSE IF elongation < Deg(300) THEN cfg.phase_bonus.last_quarter
       ELSE cfg.phase_bonus.waning_crescent

\* _moon_speed_bonus
_moon_speed_bonus(cfg, ch) ==
    LET moon_speed == Abs(ch.planets["Moon"].speed)
    IN IF moon_speed < Deg(11) THEN cfg.speed_bonus.very_slow
       ELSE IF moon_speed < Deg(12) THEN cfg.speed_bonus.slow
       ELSE IF moon_speed < Deg(14) THEN cfg.speed_bonus.average
       ELSE IF moon_speed < Deg(15) THEN cfg.speed_bonus.fast
       ELSE cfg.speed_bonus.very_fast

\* _moon_angularity_bonus
_moon_angularity_bonus(cfg, ch) ==
    LET moon_house == ch.planets["Moon"].house
    IN IF moon_house \in {1, 4, 7, 10} THEN cfg.angularity_bonus.angular
       ELSE IF moon_house \in {2, 5, 8, 11} THEN cfg.angularity_bonus.succedent
       ELSE cfg.angularity_bonus.cadent

Uncertain == [text |-> "Uncertain", n |-> 0]

Testimony(favorable, unfavorable, reason, void_of_course, timing) ==
    [favorable |-> favorable, unfavorable |-> unfavorable, reason |-> reason,
     void_of_course |-> void_of_course, timing |-> timing]

\* a Moon testimony whose void verdict does not look at the exception flag
MoonTestimonyIgnoringException(cfg, ch, querent, quesited, ignore_void_moon) ==
    LET moon_pos == ch.planets["Moon"]
        void_check == _is_moon_void_of_course_enhanced(cfg, ch)
        adjusted_dignity == moon_pos.dignity_score
                              + _moon_phase_bonus(cfg, ch) + _moon_speed_bonus(cfg, ch)
                              + _moon_angularity_bonus(cfg, ch)
        next_aspect == ch.moon_next_aspect
    IN IF ~ignore_void_moon /\ void_check.void
       THEN Testimony(FALSE, TRUE, "Moon void of course", TRUE,
                      [text |-> "Nothing comes of the matter", n |-> 0])
       ELSE IF ignore_void_moon
       THEN Testimony(FALSE, FALSE, "Moon void of course - ignored by override", TRUE,
                      [text |-> "Uncertain (void Moon overridden)", n |-> 0])
       ELSE IF next_aspect.found /\ next_aspect.planet \in {querent, quesited}
       THEN LET favorable == next_aspect.aspect \in {"Conjunction", "Sextile", "Trine"}
            IN Testimony(favorable, ~favorable, "Moon next aspects significator", FALSE,
                         next_aspect.perfection_eta_description)
       ELSE IF adjusted_dignity > 0
       THEN Testimony(TRUE, FALSE, "Moon well-dignified", FALSE, Uncertain)
       ELSE IF adjusted_dignity < -3
       THEN Testimony(FALSE, TRUE, "Moon poorly dignified", FALSE, Uncertain)
       ELSE Testimony(FALSE, FALSE, "Moon testimony neutral", FALSE, Uncertain)

\* a Moon testimony that looks at the Moon's dignity before its next aspect
MoonTestimonyDignityFirst(cfg, ch, querent, quesited, ignore_void_moon) ==
    LET moon_pos == ch.planets["Moon"]
        void_check == _is_moon_void_of_course_enhanced(cfg, ch)
        adjusted_dignity == moon_pos.dignity_score
                              + _moon_phase_bonus(cfg, ch) + _moon_speed_bonus(cfg, ch)
                              + _moon_angularity_bonus(cfg, ch)
        next_aspect == ch.moon_next_aspect
    IN IF ~ignore_void_moon /\ void_check.void /\ ~void_check.exception
       THEN Testimony(FALSE, TRUE, "Moon void of course", TRUE,
                      [text |-> "Nothing comes of the matter", n |-> 0])
       ELSE IF ignore_void_moon
       THEN Testimony(FALSE, FALSE, "Moon void of course - ignored by override", TRUE,
                      [text |-> "Uncertain (void Moon overridden)", n |-> 0])
       ELSE IF adjusted_dignity > 0
       THEN Testimony(TRUE, FALSE, "Moon well-dignified", FALSE, Uncertain)
       ELSE IF adjusted_dignity < -3
       THEN Testimony(FALSE, TRUE, "Moon poorly dignified", FALSE, Uncertain)
       ELSE IF next_aspect.found /\ next_aspect.planet \in {querent, quesited}
       THEN LET favorable == next_aspect.aspect \in {"Conjunction", "Sextile", "Trine"}
            IN Testimony(favorable, ~favorable, "Moon next aspects significator", FALSE,
                         next_aspect.perfection_eta_description)
       ELSE Testimony(FALSE, FALSE, "Moon testimony neutral", FALSE, Uncertain)

\* _check_enhanced_moon_testimony
_check_enhanced_moon_testimony(cfg, ch, querent, quesited, ignore_void_moon) ==
    LET moon_pos == ch.planets["Moon"]
        void_check == _is_moon_void_of_course_enhanced(cfg, ch)
        adjusted_dignity == moon_pos.dignity_score
                              + _moon_phase_bonus(cfg, ch) + _moon_speed_bonus(cfg, ch)
                              + _moon_angularity_bonus(cfg, ch)
        next_aspect == ch.moon_next_aspect
    IN IF ~ignore_void_moon /\ void_check.void /\ ~void_check.exception
       THEN Testimony(FALSE, TRUE, "Moon void of course", TRUE,
                      [text |-> "Nothing comes of the matter", n |-> 0])
       ELSE IF ignore_void_moon
       THEN Testimony(FALSE, FALSE, "Moon void of course - ignored by override", TRUE,
                      [text |-> "Uncertain (void Moon overridden)", n |-> 0])
       ELSE IF next_aspect.found /\ next_aspect.planet \in {querent, quesited}
       THEN LET favorable == next_aspect.aspect \in {"Conjunction", "Sextile", "Trine"}
            IN Testimony(favorable, ~favorable, "Moon next aspects significator", FALSE,
                         next_aspect.perfection_eta_description)
       ELSE IF adjusted_dignity > 0
       THEN Testimony(TRUE, FALSE, "Moon well-dignified", FALSE, Uncertain)
       ELSE IF adjusted_dignity < -3
       THEN Testimony(FALSE, TRUE, "Moon poorly dignified", FALSE, Uncertain)
       ELSE Testimony(FALSE, FALSE, "Moon testimony neutral", FALSE, Uncertain)

NoPerfection == Perfection(FALSE, "none", FALSE, 0, "none", NoAspect, NoPlanet)

NoDenial == [denied |-> FALSE, confidence |-> 0, reason |-> "none"]

NoTestimony == Testimony(FALSE, FALSE, "none", FALSE, Uncertain)

NoSignificators ==
    [valid |-> FALSE, reason |-> "none", querent |-> NoPlanet, quesited |-> NoPlanet]

NoSolarFactors ==
    [significant |-> FALSE, cazimi_count |-> 0, combustion_count |-> 0,
     under_beams_count |-> 0, combustion_ignored |-> FALSE]

NoTiming == [text |-> "None", n |-> 0]

\* The dictionary _apply_enhanced_judgment returns.  "stages" lists, in order,
\* the stage functions the call evaluated before it returned.
Judgment(res, confidence, reasoning, timing, stages, significators, solar_factors, perfection, denial, testimony) ==
    [result |-> res, confidence |-> confidence, reasoning |-> reasoning,
     timing |-> timing, stages |-> stages, significators |-> significators,
     solar_factors |-> solar_factors, perfection |-> perfection,
     denial |-> denial, testimony |-> testimony]

\* _apply_enhanced_judgment
_apply_enhanced_judgment(cfg, ch, moon_speed, quesited_house, ignore_radicality, ignore_void_moon, ignore_combustion, ignore_saturn_7th, exaltation_confidence_boost) ==
    LET reasoning1 == IF ignore_radicality THEN <<"Radicality: Bypassed by override">>
                      ELSE <<"Radicality">>
        stages1 == IF ignore_radicality THEN <<>> ELSE <<"radicality">>
        stages2 == Append(stages1, "significators")
        stages3 == Append(stages2, "solar_factors")
        stages4 == Append(stages3, "perfection")
        stages5 == Append(stages4, "denial")
        stages6 == Append(stages5, "moon_testimony")
        \* 3.-5. perfection, denial and the Moon's testimony
        Verdict(significators, solar_factors, confidence3, reasoning3, perfection, denial, moon_testimony) ==
            IF perfection.perfects
            THEN Judgment(IF perfection.favorable THEN "YES" ELSE "NO",
                          Min2(confidence3, perfection.confidence),
                          Append(reasoning3, "Perfection"),
                          _calculate_enhanced_timing(moon_speed, perfection), stages4,
                          significators, solar_factors, perfection, NoDenial,
                          NoTestimony)
            ELSE IF denial.denied
            THEN Judgment("NO", Min2(confidence3, denial.confidence),
                          Append(reasoning3, "Denial"), NoTiming, stages5,
                          significators, solar_factors, perfection, denial, NoTestimony)
            ELSE Judgment(IF moon_testimony.favorable THEN "YES"
                          ELSE IF moon_testimony.unfavorable THEN "NO" ELSE "UNCLEAR",
                          IF moon_testimony.favorable
                          THEN Min2(confidence3, cfg.lunar_confidence_caps.favorable)
                          ELSE IF moon_testimony.unfavorable
                          THEN Min2(confidence3, cfg.lunar_confidence_caps.unfavorable)
                          ELSE Min2(confidence3, cfg.lunar_confidence_caps.neutral),
                          Append(reasoning3, "Moon"), moon_testimony.timing, stages6,
                          significators, solar_factors, perfection, denial,
                          moon_testimony)
        \* the solar conditions adjust the confidence before the perfection check
        Solar(significators, solar_factors, cazimi, combust) ==
            Verdict(significators, solar_factors,
                    IF cazimi THEN cfg.base_confidence + cfg.solar.cazimi_bonus
                    ELSE IF combust
                    THEN cfg.base_confidence - cfg.solar.combustion_penalty
                    ELSE cfg.base_confidence,
                    reasoning1 \o <<"Significators">>
                       \o (IF solar_factors.significant
                           THEN <<"Solar conditions">> ELSE <<>>)
                       \o (IF cazimi THEN <<"Cazimi planets strengthen">>
                           ELSE IF combust THEN <<"Combusted planets weaken">>
                           ELSE <<>>),
                    _check_enhanced_perfection(cfg, ch, significators.querent,
                        significators.quesited, exaltation_confidence_boost),
                    _check_enhanced_denial_conditions(cfg, ch, significators.querent,
                        significators.quesited),
                    _check_enhanced_moon_testimony(cfg, ch, significators.querent,
                        significators.quesited, ignore_void_moon))
        \* the solar conditions of the chart
        SolarFactors(significators, solar_factors) ==
            Solar(significators, solar_factors,
                  solar_factors.significant /\ solar_factors.cazimi_count > 0,
                  /\ solar_factors.significant
                  /\ ~(solar_factors.cazimi_count > 0)
                  /\ solar_factors.combustion_count > 0 /\ ~ignore_combustion)
        \* 2. significators
        Significators(significators) ==
            IF ~significators.valid
            THEN Judgment("CANNOT JUDGE", 0, Append(reasoning1, significators.reason),
                          NoTiming, stages2, significators, NoSolarFactors,
                          NoPerfection, NoDenial, NoTestimony)
            ELSE SolarFactors(significators,
                              _analyze_enhanced_solar_factors(ch, significators.querent,
                                  significators.quesited, ignore_combustion))
        \* 1. radicality
        Radicality(radicality) ==
            IF ~ignore_radicality /\ ~radicality.valid
            THEN Judgment("NOT RADICAL", 0, <<radicality.reason>>, NoTiming, stages1,
                          NoSignificators, NoSolarFactors, NoPerfection, NoDenial,
                          NoTestimony)
            ELSE Significators(_identify_significators(ch, quesited_house))
    IN Radicality(_check_enhanced_radicality(cfg, ch, ignore_saturn_7th))

\* _calculate_considerations
_calculate_considerations(cfg, ch) ==
    [radical |-> _check_enhanced_radicality(cfg, ch, FALSE).valid,
     moon_void |-> _is_moon_void_of_course_enhanced(cfg, ch).void]

NoJudgment ==
    Judgment("none", 0, <<>>, NoTiming, <<>>, NoSignificators, NoSolarFactors,
             NoPerfection, NoDenial, NoTestimony)

NoChart == [built |-> FALSE]

NoConsiderations == [radical |-> FALSE, moon_void |-> FALSE]

\* What the caller gets: a result dictionary, or (raised) an exception
Answer(raised, judgment, confidence, reasoning, error_type, detail, considerations) ==
    [raised |-> raised, judgment |-> judgment, confidence |-> confidence,
     reasoning |-> reasoning, error_type |-> error_type, detail |-> detail,
     considerations |-> considerations]

NoAnswer == Answer(FALSE, "none", 0, <<>>, "none", NoJudgment, NoConsiderations)

Raised(error_type) ==
    Answer(TRUE, "none", 0, <<>>, error_type, NoJudgment, NoConsiderations)

\* judge_question: "except LocationError" and "except Exception"
LocationErrorAnswer ==
    Answer(FALSE, "LOCATION_ERROR", 0, <<"Location error">>, "LocationError",
           NoJudgment, NoConsiderations)

ErrorAnswer(error_type) ==
    Answer(FALSE, "ERROR", 0, <<"Calculation error">>, error_type,
           NoJudgment, NoConsiderations)

-----------------------------------------------------------------------------
(* Configuration: the values cfg() serves (horary_constants.yaml), angles in
   arcminutes, speeds in arcminutes per day *)

DefaultConfig ==
    [aspect_orb |-> [a \in AspectTypes |-> IF a = "Sextile" THEN Deg(6) ELSE Deg(8)],
     sun_orb_bonus |-> Deg(2),
     moon_orb_bonus |-> Deg(1),
     cazimi_orb_arcmin |-> 17,
     combustion_orb |-> 510,
     under_beams_orb |-> Deg(15),
     void_orb_deg |-> Deg(1),
     default_moon_speed_fallback |-> Deg(13),
     timing_precision_days |-> [num |-> 1, den |-> 10],
     stationary_speed_threshold |-> 1,
     asc_too_early |-> Deg(3),
     asc_too_late |-> Deg(27),
     saturn_7th_enabled |-> TRUE,
     via_combusta_enabled |-> TRUE,
     via_combusta |-> [libra_start |-> Deg(15), scorpio_full |-> TRUE,
                       capricorn_start |-> Deg(15)],
     void_rule |-> "by_sign",
     void_exceptions |-> [cancer |-> TRUE, sagittarius |-> TRUE, taurus |-> TRUE],
     translation |-> [require_speed_advantage |-> FALSE,
                      require_proper_sequence |-> FALSE],
     collection |-> [require_collector_dignity |-> FALSE, minimum_dignity_score |-> 0],
     phase_bonus |-> [new_moon |-> -1, waxing_crescent |-> 1, first_quarter |-> 0,
                      waxing_gibbous |-> 1, full_moon |-> 2, waning_gibbous |-> 0,
                      last_quarter |-> 0, waning_crescent |-> -1],
     speed_bonus |-> [very_slow |-> -2, slow |-> -1, average |-> 0, fast |-> 1,
                      very_fast |-> 2],
     angularity_bonus |-> [angular |-> 1, succedent |-> 0, cadent |-> -1],
     dignity |-> [rulership |-> 5, exaltation |-> 4, detriment |-> -5, fall |-> -4,
                  joy |-> 2, angular |-> 1, succedent |-> 0, cadent |-> -1],
     solar |-> [cazimi_bonus |-> 15, exact_cazimi_bonus |-> 20,
                combustion_penalty |-> 20, under_beams_penalty |-> 10],
     perfection |-> [direct_with_mutual_rulership |-> 95,
                     direct_with_mutual_exaltation |-> 85, direct_basic |-> 75,
                     translation_of_light |-> 80, collection_of_light |-> 75,
                     reception_only |-> 70],
     denial |-> [prohibition |-> 85, frustration_retrograde |-> 80],
     retrograde_automatic_denial |-> FALSE,
     base_confidence |-> 100,
     lunar_confidence_caps |-> [favorable |-> 80, unfavorable |-> 80, neutral |-> 50],
     mutual_exaltation_bonus |-> 10]

\* A configuration following Lilly: his void rule, translation only with a
\* speed advantage, a retrograde significator denies, a wider combustion orb
LillyConfig ==
    [DefaultConfig EXCEPT !.void_rule = "lilly",
                          !.translation.require_speed_advantage = TRUE,
                          !.retrograde_automatic_denial = TRUE,
                          !.combustion_orb = Deg(12),
                          !.via_combusta_enabled = FALSE,
                          !.void_exceptions = [cancer |-> FALSE, sagittarius |-> FALSE,
                                               taurus |-> FALSE]]

\* A strict configuration: void by orb, translation in proper sequence only,
\* a collector must be dignified, no Saturn-in-7th consideration
StrictConfig ==
    [DefaultConfig EXCEPT !.void_rule = "by_orb",
                          !.translation.require_proper_sequence = TRUE,
                          !.collection.require_collector_dignity = TRUE,
                          !.saturn_7th_enabled = FALSE,
                          !.void_exceptions = [cancer |-> TRUE, sagittarius |-> FALSE,
                                               taurus |-> FALSE]]

\* A cautious configuration: a base confidence below every ceiling, and a
\* collector must be dignified
CautiousConfig ==
    [DefaultConfig EXCEPT !.base_confidence = 70,
                          !.collection.require_collector_dignity = TRUE]

Configs == {DefaultConfig, LillyConfig, StrictConfig, CautiousConfig}

-----------------------------------------------------------------------------
(* The collaborators' answers for one request: the ephemeris (a position and a
   speed per planet, or a failed lookup), the house calculation, the Sun's
   altitude, and which collaborator, if any, fails *)

At(sign_name, d, m) == SignStart(SignOf(sign_name)) + Deg(d) + m

Eph(longitude, speed) == [ok |-> TRUE, lon |-> longitude, speed |-> speed]

EphFailed == [ok |-> FALSE, lon |-> 0, speed |-> 0]

EqualCusps(asc) == [i \in 1..12 |-> (asc + (i - 1) * Deg(30)) % Circle]

HousesAt(asc) ==
    [ok |-> TRUE, cusps |-> EqualCusps(asc), ascendant |-> asc,
     midheaven |-> (asc + Deg(270)) % Circle]

HousesFailed ==
    [ok |-> FALSE, cusps |-> FallbackHouses, ascendant |-> 0, midheaven |-> 0]

SunPlaces == {Eph(At("Aries", 8, 0), 59), Eph(At("Sagittarius", 20, 0), 61)}

MoonPlaces ==
    {Eph(At("Gemini", 29, 10), 790), Eph(At("Cancer", 29, 10), 790),
     Eph(At("Leo", 3, 0), 720)}

MercuryPlaces == {Eph(At("Sagittarius", 20, 5), 80)}

VenusPlaces ==
    {Eph(At("Aries", 8, 0), 70), Eph(At("Aries", 12, 0), 70),
     Eph(At("Taurus", 13, 0), 70)}

MarsPlaces ==
    {Eph(At("Leo", 10, 0), 40), Eph(At("Capricorn", 10, 0), 40),
     Eph(At("Libra", 10, 0), 40), Eph(At("Cancer", 12, 0), 35)}

JupiterPlaces == {Eph(At("Pisces", 15, 0), 5)}

SaturnPlaces == {Eph(At("Capricorn", 12, 0), 4), Eph(At("Aries", 12, 0), 4)}

Ephemerides ==
    {[p \in Planets |->
        CASE p = "Sun" -> su [] p = "Moon" -> mo [] p = "Mercury" -> me
          [] p = "Venus" -> ve [] p = "Mars" -> ma [] p = "Jupiter" -> ju
          [] OTHER -> sa] :
        su \in SunPlaces, mo \in MoonPlaces, me \in MercuryPlaces, ve \in VenusPlaces,
        ma \in MarsPlaces, ju \in JupiterPlaces, sa \in SaturnPlaces}

Environment(fault, eph, houses, sun_altitude) ==
    [fault |-> fault, eph |-> eph, houses |-> houses, sun_altitude |-> sun_altitude]

\* a quiet sky the special cases below are variations of
QuietSky ==
    [p \in Planets |->
        CASE p = "Sun" -> Eph(At("Sagittarius", 20, 0), 61)
          [] p = "Moon" -> Eph(At("Leo", 3, 0), 720)
          [] p = "Mercury" -> Eph(At("Sagittarius", 20, 5), 80)
          [] p = "Venus" -> Eph(At("Taurus", 13, 0), 70)
          [] p = "Mars" -> Eph(At("Leo", 10, 0), 40)
          [] p = "Jupiter" -> Eph(At("Pisces", 15, 0), 5)
          [] OTHER -> Eph(At("Capricorn", 12, 0), 4)]

\* Mars retrograde on the first minute of Cancer, Saturn closing to its square
RetrogradeSky ==
    [QuietSky EXCEPT !["Mars"] = Eph(At("Cancer", 0, 0), -20),
                     !["Saturn"] = Eph(At("Pisces", 28, 30), 4)]

\* Venus closing to a sextile of Mars that is exact only after Venus has left
\* Taurus by the 0.1 degree floor of degrees_to_exact, and to a square of
\* Saturn that is exact sooner
ProhibitionSky ==
    [QuietSky EXCEPT !["Venus"] = Eph(At("Taurus", 29, 48), 70),
                     !["Mars"] = Eph(At("Cancer", 29, 53), 40),
                     !["Saturn"] = Eph(At("Leo", 29, 58), 4)]

\* the same three planets a little earlier: the sextile of Venus and Mars, at
\* an orb above 0.1 degree, is exact before Venus leaves Taurus
DirectSky ==
    [QuietSky EXCEPT !["Venus"] = Eph(At("Taurus", 29, 40), 70),
                     !["Mars"] = Eph(At("Cancer", 29, 47), 40),
                     !["Saturn"] = Eph(At("Leo", 29, 46), 4)]

\* places of a slow Moon with high and low dignity, with and without a next
\* aspect to a significator
TestimonyMoonPlaces ==
    {Eph(At("Aries", 3, 0), 700), Eph(At("Taurus", 3, 0), 700),
     Eph(At("Leo", 15, 0), 700), Eph(At("Virgo", 15, 0), 700),
     Eph(At("Sagittarius", 15, 0), 700)}

Faults == {"config", "no_geolocator", "location", "geocoding", "serialization"}

Environments ==
    {Environment("none", eph, HousesAt(At("Aries", 15, 0)), Deg(20)) :
        eph \in Ephemerides}
    \cup {Environment("none", [QuietSky EXCEPT !["Saturn"] = EphFailed],
                       HousesAt(At("Aries", 15, 0)), Deg(20))}
    \cup {Environment("none", sky, HousesAt(At("Aries", 15, 0)), Deg(20)) :
            sky \in {RetrogradeSky, ProhibitionSky, DirectSky}}
    \cup {Environment("none", [QuietSky EXCEPT !["Moon"] = mo],
                       HousesAt(At("Aries", 15, 0)), Deg(20)) :
            mo \in TestimonyMoonPlaces}
    \cup {Environment("none", QuietSky, h, Deg(20)) :
            h \in {HousesAt(At("Aries", 1, 0)), HousesAt(At("Aries", 28, 0)),
                   HousesAt(At("Cancer", 10, 0)), HousesFailed}}
    \cup {Environment("none", sky, HousesFailed, Deg(20)) :
            sky \in {RetrogradeSky, ProhibitionSky}}
    \cup {Environment(f, QuietSky, HousesAt(At("Aries", 15, 0)), Deg(20)) :
            f \in Faults}

-----------------------------------------------------------------------------
(* A judgment request.  The caller fixes every argument when it calls; the model
   draws each argument at the step where the code first reads it. *)

NoBoost == [given |-> FALSE, value |-> 0]

Boost(v) == [given |-> TRUE, value |-> v]

\* the arguments read before the chart is calculated
Settings ==
    {[exaltation_confidence_boost |-> NoBoost, use_current_time |-> TRUE,
      has_date_time |-> FALSE],
     [exaltation_confidence_boost |-> NoBoost, use_current_time |-> FALSE,
      has_date_time |-> FALSE],
     [exaltation_confidence_boost |-> Boost(-90), use_current_time |-> FALSE,
      has_date_time |-> TRUE]}

\* question_analysis["significators"]["quesited_house"] of the question asked
\* and the manual_houses argument (<<>>: none given)
Questions ==
    {[question_house |-> 5, manual_houses |-> <<>>],
     [question_house |-> 7, manual_houses |-> <<>>],
     [question_house |-> 5, manual_houses |-> <<1>>],
     [question_house |-> 7, manual_houses |-> <<1, 10>>],
     [question_house |-> 7, manual_houses |-> <<1, 8>>],
     [question_house |-> 7, manual_houses |-> <<1, 13>>]}

\* "if manual_houses: ... manual_houses[1] if len(manual_houses) > 1 else 7"
QuesitedHouse(q) ==
    IF Len(q.manual_houses) > 0
    THEN IF Len(q.manual_houses) > 1 THEN q.manual_houses[2] ELSE 7
    ELSE q.question_house

NoRequest == [use_current_time |-> TRUE]

Init ==
    /\ config \in Configs
    /\ env \in Environments
    /\ req = NoRequest
    /\ pc = "start"
    /\ chart = NoChart
    /\ result = NoAnswer
    /\ fn = "judge"

\* HoraryEngine.judge up to its call of judge_question: the settings are
\* unpacked and a missing exaltation bonus is read from the configuration
Judge(settings) ==
    /\ pc = "start"
    /\ req' = settings
    /\ IF ~settings.exaltation_confidence_boost.given /\ env.fault = "config"
       THEN pc' = "done" /\ result' = Raised("ConfigError")
       ELSE pc' = "called" /\ result' = result
    /\ UNCHANGED <<config, env, chart, fn>>

\* judge_question called directly
JudgeQuestion(settings) ==
    /\ pc = "start"
    /\ req' = settings
    /\ pc' = "called"
    /\ UNCHANGED <<config, env, chart, result, fn>>

\* judge_question up to the chart: configuration, geocoding, date and time
Locate ==
    /\ pc = "called"
    /\ IF env.fault = "config" THEN pc' = "done" /\ result' = ErrorAnswer("ConfigError")
       ELSE IF env.fault \in {"no_geolocator", "location"}
       THEN pc' = "done" /\ result' = LocationErrorAnswer
       ELSE IF env.fault = "geocoding"
       THEN pc' = "done" /\ result' = ErrorAnswer("Exception")
       ELSE IF ~req.use_current_time /\ ~req.has_date_time
       THEN pc' = "done" /\ result' = ErrorAnswer("ValueError")
       ELSE pc' = "located" /\ result' = result
    /\ UNCHANGED <<config, env, req, chart, fn>>

\* judge_question: self.calculator.calculate_chart(...)
CalculateChart ==
    /\ pc = "located"
    /\ chart' = calculate_chart(config, env)
    /\ pc' = "charted"
    /\ UNCHANGED <<config, env, req, result, fn>>

\* judge_question from the question analysis to its return
ApplyJudgment(q, ignore_radicality, ignore_void_moon, ignore_combustion, ignore_saturn_7th) ==
    /\ pc = "charted"
    /\ req' = req @@ [question |-> q, ignore_radicality |-> ignore_radicality,
                      ignore_void_moon |-> ignore_void_moon,
                      ignore_combustion |-> ignore_combustion,
                      ignore_saturn_7th |-> ignore_saturn_7th]
    /\ LET Return(judgment) ==
               Answer(FALSE, judgment.result, judgment.confidence, judgment.reasoning,
                      "none", judgment, _calculate_considerations(config, chart))
       IN result' = IF env.fault = "serialization" THEN ErrorAnswer("Exception")
                    ELSE Return(_apply_enhanced_judgment(config, chart,
                                   get_real_moon_speed(config, env.eph),
                                   QuesitedHouse(q), ignore_radicality,
                                   ignore_void_moon, ignore_combustion,
                                   ignore_saturn_7th,
                                   IF req.exaltation_confidence_boost.given
                                   THEN req.exaltation_confidence_boost.value
                                   ELSE config.mutual_exaltation_bonus))
    /\ pc' = "done"
    /\ UNCHANGED <<config, env, chart, fn>>

Next ==
    \/ \E settings \in Settings : Judge(settings)
    \/ \E settings \in Settings : JudgeQuestion(settings)
    \/ Locate
    \/ CalculateChart
    \/ \E q \in Questions : \E ir, iv, ic, is \in BOOLEAN :
          ApplyJudgment(q, ir, iv, ic, is)

Spec == Init /\ [][Next]_vars

-----------------------------------------------------------------------------
(* Properties of the judgment (specification Spec) *)

\* judge_question returned a judgment of the rule pipeline
Judged ==
    /\ fn = "judge" /\ pc = "done" /\ ~result.raised
    /\ result.judgment \notin {"none", "ERROR", "LOCATION_ERROR"}

\* the stage was evaluated by the judgment that was returned
Ran(stage) ==
    \E k \in 1..Len(result.detail.stages) : result.detail.stages[k] = stage

\* C1: for every chart, question, combination of the four override flags,
\* exaltation bonus and configuration, the confidence a judgment returns is
\* within 0..100, whatever the verdict.
C1_ConfidenceWithinBounds ==
    (fn = "judge" /\ pc = "done" /\ ~result.raised)
        => (result.confidence >= 0 /\ result.confidence <= 100)

\* C2: the entry points judge and judge_question never propagate a fault to the
\* caller: a geocoding LocationError gives LOCATION_ERROR with confidence 0 and
\* the message in the reasoning, any other failure (configuration access and a
\* missing date and time included) gives ERROR with confidence 0 and the message.
C2_NoFaultReachesCaller ==
    (fn = "judge" /\ pc = "done") =>
        /\ ~result.raised
        /\ env.fault \in {"location", "no_geolocator"}
              => /\ result.judgment = "LOCATION_ERROR" /\ result.confidence = 0
                 /\ result.reasoning = <<"Location error">>
        /\ (\/ env.fault \in {"config", "geocoding", "serialization"}
            \/ (env.fault = "none" /\ ~req.use_current_time /\ ~req.has_date_time))
              => /\ result.judgment = "ERROR" /\ result.confidence = 0
                 /\ result.reasoning = <<"Calculation error">>

\* C3: unless ignore_radicality is set, an ascendant whose degree within its
\* sign is below asc_too_early or above asc_too_late ends the judgment with NOT
\* RADICAL and confidence 0, and no later stage is evaluated or contributes.
C3_AscendantOutOfRangeNotRadical ==
    (/\ Judged /\ ~req.ignore_radicality
     /\ \/ chart.ascendant % Deg(30) < config.asc_too_early
        \/ chart.ascendant % Deg(30) > config.asc_too_late)
        => /\ result.judgment = "NOT RADICAL" /\ result.confidence = 0
           /\ result.detail.stages = <<"radicality">>
           /\ Len(result.reasoning) = 1
           /\ result.detail.significators = NoSignificators
           /\ result.detail.solar_factors = NoSolarFactors
           /\ result.detail.perfection = NoPerfection
           /\ result.detail.denial = NoDenial
           /\ result.detail.testimony = NoTestimony

C3_Witness ==
    /\ Judged /\ ~req.ignore_radicality
    /\ chart.ascendant % Deg(30) > config.asc_too_late
    /\ result.judgment = "NOT RADICAL"

\* C4: once radicality has passed or was bypassed, an undeterminable ruler of
\* house 1 or of the quesited house, or one planet ruling both, ends the judgment
\* with CANNOT JUDGE and confidence 0 before any perfection, denial or Moon
\* stage; otherwise the querent is the ruler of house 1, the quesited the ruler
\* of the quesited house, and they are distinct planets.
C4_Significators ==
    (Judged /\ result.judgment # "NOT RADICAL") =>
        LET house == QuesitedHouse(req.question)
            ruler(h) == IF h \in 1..12 THEN SignRuler(_get_sign(chart.houses[h]))
                        ELSE NoPlanet
        IN IF ruler(1) = NoPlanet \/ ruler(house) = NoPlanet \/ ruler(1) = ruler(house)
           THEN /\ result.judgment = "CANNOT JUDGE" /\ result.confidence = 0
                /\ ~Ran("perfection") /\ ~Ran("denial") /\ ~Ran("moon_testimony")
                /\ result.detail.perfection = NoPerfection
                /\ result.detail.denial = NoDenial
                /\ result.detail.testimony = NoTestimony
           ELSE /\ result.judgment # "CANNOT JUDGE"
                /\ result.detail.significators.querent = ruler(1)
                /\ result.detail.significators.quesited = ruler(house)
                /\ result.detail.significators.querent
                      # result.detail.significators.quesited

C4_Witness ==
    /\ Judged /\ result.judgment = "CANNOT JUDGE"
    /\ QuesitedHouse(req.question) \notin 1..12

\* the perfection search was reached: radicality and significators passed
PerfectionStageRan == Judged /\ Ran("perfection")

\* C5: the perfection search reports the first kind that applies in the order
\* direct aspect, translation of light, collection of light, mutual reception
\* without aspect; "no perfection" only if none applies; the denial and Moon
\* testimony stages run only when no perfection was reported.
C5_PerfectionOrder ==
    PerfectionStageRan =>
        LET querent == result.detail.significators.querent
            quesited == result.detail.significators.quesited
            aspect == _find_applying_aspect(chart, querent, quesited)
            direct == /\ aspect.found
                      /\ _enhanced_perfects_in_sign(chart.planets[querent],
                                                    chart.planets[quesited], aspect)
            translation ==
                _check_enhanced_translation_of_light(config, chart, querent, quesited).found
            collection ==
                _check_enhanced_collection_of_light(config, chart, querent, quesited).found
            reception ==
                _check_enhanced_mutual_reception(chart, querent, quesited)
                    \in {"mutual_rulership", "mutual_exaltation"}
            reported == result.detail.perfection
        IN /\ reported.type = IF direct THEN "direct"
                              ELSE IF translation THEN "translation"
                              ELSE IF collection THEN "collection"
                              ELSE IF reception THEN "reception"
                              ELSE "none"
           /\ reported.perfects <=> reported.type # "none"
           /\ Ran("denial") => ~reported.perfects
           /\ Ran("moon_testimony") => ~reported.perfects
           /\ reported.perfects => result.detail.denial = NoDenial
           /\ reported.perfects => result.detail.testimony = NoTestimony

\* translation is reported although a collector is there too
C5_Witness ==
    /\ PerfectionStageRan
    /\ result.detail.perfection.type = "translation"
    /\ _check_enhanced_collection_of_light(config, chart,
            result.detail.significators.querent,
            result.detail.significators.quesited).found

\* C6: significators with an applying direct aspect that perfects before either
\* leaves its sign, in mutual reception by rulership, give the result YES for
\* every aspect type, square and opposition included.
C6_MutualRulershipYes ==
    PerfectionStageRan =>
        LET querent == result.detail.significators.querent
            quesited == result.detail.significators.quesited
            aspect == _find_applying_aspect(chart, querent, quesited)
            mutual_rulership ==
                /\ SignRuler(_get_sign(chart.planets[querent].longitude)) = quesited
                /\ SignRuler(_get_sign(chart.planets[quesited].longitude)) = querent
        IN (/\ aspect.found
            /\ _enhanced_perfects_in_sign(chart.planets[querent],
                                          chart.planets[quesited], aspect)
            /\ mutual_rulership)
              => result.judgment = "YES"

C6_Witness ==
    /\ PerfectionStageRan
    /\ result.judgment = "YES"
    /\ result.detail.perfection.type = "direct"
    /\ result.detail.perfection.reception = "mutual_rulership"
    /\ result.detail.perfection.aspect.aspect \in {"Square", "Opposition"}

\* the Moon testimony decided the judgment
MoonStageRan == Judged /\ Ran("moon_testimony")

\* one of the by_sign exceptions is switched on for the Moon's sign
EnabledVoidException ==
    LET sign == _get_sign(chart.planets["Moon"].longitude)
    IN \/ (sign = SignOf("Cancer") /\ config.void_exceptions.cancer)
       \/ (sign = SignOf("Sagittarius") /\ config.void_exceptions.sagittarius)
       \/ (sign = SignOf("Taurus") /\ config.void_exceptions.taurus)

LeavesSignBeforeExact(pos, orb, rel) ==
    LET d == pos.longitude % SignSpan
        to_exit == IF pos.speed > 0 THEN SignSpan - d ELSE d
    IN /\ pos.speed # 0
       /\ (rel = 0 \/ to_exit * rel < orb * Abs(pos.speed))

\* C14: no aspect of the chart is flagged applying if either of its bodies
\* leaves its sign before the aspect's estimated time to exact, and a direct
\* perfection is reported only for an applying aspect between the significators
\* that completes before either of them leaves its sign.
C14_NoApplyingPastSignExit ==
    /\ (fn = "judge" /\ chart # NoChart) =>
          \A k \in 1..Len(chart.aspects) :
             LET a == chart.aspects[k]
                 pos1 == chart.planets[a.planet1]
                 pos2 == chart.planets[a.planet2]
                 rel == Abs(pos1.speed - pos2.speed)
             IN a.applying => /\ ~LeavesSignBeforeExact(pos1, a.orb, rel)
                              /\ ~LeavesSignBeforeExact(pos2, a.orb, rel)
    /\ (PerfectionStageRan /\ result.detail.perfection.type = "direct") =>
          \E k \in 1..Len(chart.aspects) :
             LET a == chart.aspects[k]
                 pos1 == chart.planets[a.planet1]
                 pos2 == chart.planets[a.planet2]
                 rel == Abs(pos1.speed - pos2.speed)
             IN /\ {a.planet1, a.planet2} = {result.detail.significators.querent,
                                            result.detail.significators.quesited}
                /\ a.applying
                /\ ~LeavesSignBeforeExact(pos1, a.orb, rel)
                /\ ~LeavesSignBeforeExact(pos2, a.orb, rel)

\* C15: when the ephemeris call fails for one planet the chart is still
\* assembled with all 7 planets, and the failed planet is a degraded placeholder
\* whose dignity score in the assembled chart is 0.
C15_FailedPlanetZeroDignity ==
    (fn = "judge" /\ chart # NoChart) =>
        /\ DOMAIN chart.planets = Planets
        /\ \A p \in Planets :
              ~env.eph[p].ok =>
                 /\ chart.planets[p].longitude = 0 /\ chart.planets[p].speed = 0
                 /\ chart.planets[p].sign = SignOf("Aries")
                 /\ chart.planets[p].dignity_score = 0

\* C16: when the house calculation fails the chart is still assembled, on the
\* twelve equal cusps 0, 30, ..., 330 degrees; every planet has a house in
\* 1..12 from those cusps and all 12 houses have a ruler.
C16_HouseFailureEqualCusps ==
    (fn = "judge" /\ chart # NoChart /\ ~env.houses.ok) =>
        /\ chart.houses = [i \in 1..12 |-> Deg(30 * (i - 1))]
        /\ chart.ascendant = 0 /\ chart.midheaven = Deg(90)
        /\ \A p \in Planets :
              /\ chart.planets[p].house \in 1..12
              /\ chart.planets[p].house = (chart.planets[p].longitude \div Deg(30)) + 1
        /\ DOMAIN chart.house_rulers = 1..12
        /\ \A h \in 1..12 : chart.house_rulers[h] = SignRuler(h - 1)

\* a judgment returned on the fallback cusps, with planets in several houses
C16_Witness ==
    /\ Judged /\ ~env.houses.ok
    /\ chart.planets["Sun"].house = 9 /\ chart.planets["Moon"].house = 5

\* the confidence the judgment carries into the perfection stage: the base
\* confidence after the solar-factor adjustment
RunningConfidence ==
    LET solar_factors == result.detail.solar_factors
    IN IF solar_factors.significant /\ solar_factors.cazimi_count > 0
       THEN config.base_confidence + config.solar.cazimi_bonus
       ELSE IF /\ solar_factors.significant /\ solar_factors.combustion_count > 0
               /\ ~req.ignore_combustion
       THEN config.base_confidence - config.solar.combustion_penalty
       ELSE config.base_confidence

\* the significators' own applying aspect, as the judgment looks it up
SignificatorAspect ==
    _find_applying_aspect(chart, result.detail.significators.querent,
                          result.detail.significators.quesited)

\* chart.aspects[k] is an applying aspect of Saturn to a significator that is
\* exact sooner (degrees to exact over relative speed) than the significators'
\* own applying aspect
SaturnCompletesFirst(k) ==
    LET aspect == chart.aspects[k]
        other_planet == IF aspect.planet1 = "Saturn" THEN aspect.planet2
                        ELSE aspect.planet1
        querent == result.detail.significators.querent
        quesited == result.detail.significators.quesited
        rel == Abs(chart.planets[aspect.planet1].speed
                     - chart.planets[aspect.planet2].speed)
        sig_rel == Abs(chart.planets[querent].speed - chart.planets[quesited].speed)
    IN /\ "Saturn" \in {aspect.planet1, aspect.planet2} /\ aspect.applying
       /\ other_planet \in {querent, quesited}
       /\ SignificatorAspect.found
       /\ rel > 0 /\ sig_rel > 0
       /\ aspect.degrees_to_exact * sig_rel
             < SignificatorAspect.degrees_to_exact * rel

\* C21: in the denial stage (no perfection found), if Saturn has an applying
\* aspect to the querent or quesited significator that completes strictly before
\* the significators' own applying aspect to each other, the judgment is NO with
\* confidence min(running confidence, prohibition confidence), and the
\* Moon-testimony stage is not evaluated.
C21_ProhibitionDenies ==
    (/\ Judged /\ Ran("denial")
     /\ \E k \in 1..Len(chart.aspects) : SaturnCompletesFirst(k))
        => /\ result.judgment = "NO"
           /\ result.confidence = Min2(RunningConfidence, config.denial.prohibition)
           /\ ~Ran("moon_testimony")

\* the Moon's dignity with its phase, speed and angularity bonuses
AdjustedMoonDignity ==
    chart.planets["Moon"].dignity_score + _moon_phase_bonus(config, chart)
        + _moon_speed_bonus(config, chart) + _moon_angularity_bonus(config, chart)

\* the dignity below which the Moon's testimony is unfavourable
MoonNegativeThreshold == -3

\* the Moon's next applying aspect is to one of the two significators
MoonNextToSignificator ==
    /\ chart.moon_next_aspect.found
    /\ chart.moon_next_aspect.planet \in {result.detail.significators.querent,
                                           result.detail.significators.quesited}

\* the Moon-testimony stage ran with void checking on and a Moon not void
NonVoidMoonStage ==
    /\ MoonStageRan /\ ~req.ignore_void_moon
    /\ ~_is_moon_void_of_course_enhanced(config, chart).void

\* the verdict the Moon's next aspect to a significator gives, or else the
\* Moon's adjusted dignity
TestimonyVerdict ==
    LET favorable ==
            IF MoonNextToSignificator
            THEN chart.moon_next_aspect.aspect \in {"Conjunction", "Sextile", "Trine"}
            ELSE AdjustedMoonDignity > 0
        unfavorable ==
            IF MoonNextToSignificator
            THEN chart.moon_next_aspect.aspect \in {"Square", "Opposition"}
            ELSE AdjustedMoonDignity < MoonNegativeThreshold
    IN IF favorable THEN "YES" ELSE IF unfavorable THEN "NO" ELSE "UNCLEAR"

\* the lunar confidence ceiling of a verdict
LunarCeiling(verdict) ==
    IF verdict = "YES" THEN config.lunar_confidence_caps.favorable
    ELSE IF verdict = "NO" THEN config.lunar_confidence_caps.unfavorable
    ELSE config.lunar_confidence_caps.neutral

\* C22: in the Moon-testimony stage with a non-void Moon, the verdict follows
\* the type of the Moon's next applying aspect if that aspect is to a
\* significator (conjunction, sextile, trine YES; square, opposition NO), and
\* otherwise the adjusted dignity (positive YES, at or below the negative
\* threshold NO, else UNCLEAR); the confidence is the running confidence capped
\* by the lunar ceiling of the verdict's branch.
C22_MoonTestimonyVerdict ==
    NonVoidMoonStage =>
        /\ result.judgment = TestimonyVerdict
        /\ result.confidence = Min2(RunningConfidence, LunarCeiling(TestimonyVerdict))

\* the Moon's next aspect is a square or opposition to a significator and the
\* Moon is well dignified: the verdict is the aspect's NO
C22_Witness ==
    /\ NonVoidMoonStage /\ MoonNextToSignificator
    /\ chart.moon_next_aspect.aspect \in {"Square", "Opposition"}
    /\ AdjustedMoonDignity > 0
    /\ result.judgment = "NO"

\* the ceiling of the stage that gave the verdict
VerdictCeiling ==
    LET detail == result.detail
        caps == config.lunar_confidence_caps
    IN IF detail.perfection.perfects THEN detail.perfection.confidence
       ELSE IF detail.denial.denied THEN detail.denial.confidence
       ELSE IF detail.testimony.favorable THEN caps.favorable
       ELSE IF detail.testimony.unfavorable THEN caps.unfavorable
       ELSE caps.neutral

\* the planets of the chart in the solar condition
InCondition(condition) ==
    {p \in Planets : chart.solar_analyses[p].condition = condition}

\* C23: in the solar-factor stage the running confidence is raised by the
\* cazimi bonus whenever a planet is cazimi and lowered by the combustion
\* penalty whenever a planet is combust and combustion is not overridden off,
\* both when the chart has both; with ignore_combustion neither the combustion
\* count nor the penalty applies.
C23_SolarAdjustments ==
    (Judged /\ Ran("solar_factors")) =>
        LET cazimi == InCondition("CAZIMI") # {}
            combust == InCondition("COMBUSTION") # {} /\ ~req.ignore_combustion
            confidence == config.base_confidence
                            + (IF cazimi THEN config.solar.cazimi_bonus ELSE 0)
                            - (IF combust THEN config.solar.combustion_penalty ELSE 0)
        IN /\ result.confidence = Min2(confidence, VerdictCeiling)
           /\ req.ignore_combustion => result.detail.solar_factors.combustion_count = 0

\* C24: with void-of-course checking overridden off (ignore_void_moon), the
\* Moon-testimony stage only skips the void computation: the verdict is still
\* the one the Moon's next applying aspect to a significator or the Moon's
\* adjusted dignity gives, so YES, NO and UNCLEAR all remain possible.
C24_OverrideOnlySkipsVoid ==
    (MoonStageRan /\ req.ignore_void_moon) => result.judgment = TestimonyVerdict

\* C25: whenever the caller supplies a non-empty manual house override, the
\* quesited significator is the ruler of a house of the caller's list, never of
\* the question analyzer's house nor of a built-in default, for lists of every
\* length, a single house included.
C25_QuesitedFromManualHouses ==
    (/\ Judged /\ result.detail.significators.valid
     /\ Len(req.question.manual_houses) > 0)
        => \E i \in 1..Len(req.question.manual_houses) :
              result.detail.significators.quesited
                 = HouseRulerGet(chart, req.question.manual_houses[i])


\* C27: when the house calculation failed and the equal-house fallback is used,
\* the ascendant is 0 degrees; so with a positive asc_too_early threshold and
\* radicality not bypassed the judgment of that chart is NOT RADICAL with
\* confidence 0, whatever the planets are.
C27_HouseFailureNotRadical ==
    (/\ Judged /\ ~env.houses.ok
     /\ config.asc_too_early > 0 /\ ~req.ignore_radicality)
        => /\ chart.ascendant = 0
           /\ result.judgment = "NOT RADICAL" /\ result.confidence = 0

\* a judgment on the fallback cusps, radicality checked, with planets that
\* would otherwise be judged (a retrograde planet, or three planets at the end
\* of their signs)
C27_Witness ==
    /\ Judged /\ ~env.houses.ok /\ ~req.ignore_radicality
    /\ config.asc_too_early > 0
    /\ env.eph \in {RetrogradeSky, ProhibitionSky}
    /\ result.judgment = "NOT RADICAL"

\* a planet other than the significators that has an applying aspect with each
\* of them: what the translation and the collection search both look for
ConnectingPlanets ==
    {p \in Planets \ {result.detail.significators.querent,
                       result.detail.significators.quesited} :
        /\ _find_applying_aspect(chart, p, result.detail.significators.querent).found
        /\ _find_applying_aspect(chart, p, result.detail.significators.quesited).found}

\* the significators' applying aspect perfects before either leaves its sign
DirectPerfection ==
    /\ SignificatorAspect.found
    /\ _enhanced_perfects_in_sign(chart.planets[result.detail.significators.querent],
                                  chart.planets[result.detail.significators.quesited],
                                  SignificatorAspect)

\* C28: with require_speed_advantage and require_proper_sequence both false the
\* perfection type "collection" is never reported: a planet with applying
\* aspects to both significators already is a translator, translation is looked
\* for first, and (no direct aspect perfecting) the chart is reported as
\* "translation", whatever the collector's dignity and the sign-exit timing.
C28_CollectionNeverReported ==
    (/\ Judged
     /\ ~config.translation.require_speed_advantage
     /\ ~config.translation.require_proper_sequence)
        => /\ result.detail.perfection.type # "collection"
           /\ (PerfectionStageRan /\ ConnectingPlanets # {} /\ ~DirectPerfection)
                 => /\ result.detail.perfection.type = "translation"
                    /\ result.detail.perfection.helper \in ConnectingPlanets

\* translation reported where the collection search, had it been reached, would
\* have found nothing: the connecting planet lacks the dignity a collector
\* is required to have
C28_Witness ==
    /\ PerfectionStageRan
    /\ ~config.translation.require_speed_advantage
    /\ ~config.translation.require_proper_sequence
    /\ ConnectingPlanets # {}
    /\ result.detail.perfection.type = "translation"
    /\ ~_check_enhanced_collection_of_light(config, chart,
            result.detail.significators.querent,
            result.detail.significators.quesited).found
    /\ config.collection.require_collector_dignity
    /\ chart.planets[result.detail.perfection.helper].dignity_score
          < config.collection.minimum_dignity_score

\* C30: with require_speed_advantage true no translation of light is found:
\* the perfection search goes from the direct aspect to the collection of
\* light, and no result has perfection type "translation".
C30_NoTranslationWithSpeedAdvantage ==
    (Judged /\ config.translation.require_speed_advantage) =>
        /\ result.detail.perfection.type # "translation"
        /\ (PerfectionStageRan /\ ~DirectPerfection)
              => (result.detail.perfection.type = "collection"
                    <=> _check_enhanced_collection_of_light(config, chart,
                            result.detail.significators.querent,
                            result.detail.significators.quesited).found)

\* a planet connects both significators, and the result is a collection
C30_Witness ==
    /\ PerfectionStageRan /\ config.translation.require_speed_advantage
    /\ ConnectingPlanets # {}
    /\ result.detail.perfection.type = "collection"

\* 0.1 degree, the floor of degrees_to_exact
TenthOfDegree == 6

\* chart.aspects[k] is an applying aspect of Saturn to a significator with fewer
\* degrees to exact than the significators' own applying aspect: what the
\* denial stage calls a prohibition
SaturnFewerDegrees(k) ==
    LET aspect == chart.aspects[k]
        other_planet == IF aspect.planet1 = "Saturn" THEN aspect.planet2
                        ELSE aspect.planet1
    IN /\ "Saturn" \in {aspect.planet1, aspect.planet2} /\ aspect.applying
       /\ other_planet \in {result.detail.significators.querent,
                             result.detail.significators.quesited}
       /\ SignificatorAspect.found
       /\ aspect.degrees_to_exact < SignificatorAspect.degrees_to_exact

\* C29: a prohibition-by-Saturn denial is returned only when the significators'
\* own applying aspect has an orb below 0.1 degree: an applying aspect of the
\* significators with an orb of at least 0.1 degree also passes the
\* perfects-in-sign check, the verdict comes from the direct perfection and
\* the denial stage is not reached.
C29_ProhibitionOnlyBelowTenthOfDegree ==
    PerfectionStageRan =>
        /\ (SignificatorAspect.found /\ SignificatorAspect.orb >= TenthOfDegree)
              => /\ SignificatorAspect.degrees_to_exact = SignificatorAspect.orb
                 /\ DirectPerfection
                 /\ result.detail.perfection.type = "direct"
                 /\ result.judgment \in {"YES", "NO"}
                 /\ ~Ran("denial")
                 /\ result.detail.denial = NoDenial
        /\ result.detail.denial.reason = "Prohibition by Saturn"
              => /\ SignificatorAspect.found
                 /\ SignificatorAspect.orb < TenthOfDegree

\* the significators apply at an orb of at least 0.1 degree while Saturn
\* applies to one of them with fewer degrees to go: the verdict is the direct
\* perfection's
C29_Witness ==
    /\ PerfectionStageRan
    /\ SignificatorAspect.found /\ SignificatorAspect.orb >= TenthOfDegree
    /\ \E k \in 1..Len(chart.aspects) : SaturnFewerDegrees(k)
    /\ result.detail.perfection.type = "direct"
-----------------------------------------------------------------------------
(* Specification SpecVoid: the void-of-course methods on a sky whose planets
   are moved *)

MaxMoves == 1

VoidMoonPlaces ==
    {Eph(At(sign_name, 29, 10), speed) :
        sign_name \in {"Gemini", "Cancer", "Taurus", "Sagittarius", "Pisces"},
        speed \in {0, 790}}
    \cup {Eph(At("Leo", 3, 0), 790), Eph(At("Virgo", 28, 30), 820)}

MovedPlanets == {"Venus", "Mars", "Saturn"}

MoveTargets ==
    {At("Gemini", 29, 5), At("Leo", 29, 30), At("Pisces", 29, 40),
     At("Libra", 29, 59), At("Capricorn", 29, 20), At("Taurus", 29, 30)}

NoVoidResult ==
    [method |-> "none",
     out |-> [void |-> FALSE, exception |-> FALSE, reason |-> "none",
              degrees_left_in_sign |-> 0]]

VoidInit ==
    /\ config \in Configs
    /\ env \in {Environment("none", [QuietSky EXCEPT !["Moon"] = moon],
                            HousesAt(At("Aries", 15, 0)), Deg(20)) :
                   moon \in VoidMoonPlaces}
    /\ chart = calculate_chart(config, env)
    /\ req = [moves |-> 0]
    /\ pc = "sky"
    /\ result = NoVoidResult
    /\ fn = "void"

\* the same methods are asked about a sky in which one planet stands elsewhere
MovePlanet(planet, longitude) ==
    /\ pc = "sky"
    /\ req.moves < MaxMoves
    /\ env.eph[planet].lon # longitude
    /\ env' = [env EXCEPT !.eph[planet].lon = longitude]
    /\ chart' = calculate_chart(config, env')
    /\ req' = [moves |-> req.moves + 1]
    /\ UNCHANGED <<config, pc, result, fn>>

VoidBySign ==
    /\ pc = "sky"
    /\ result' = [method |-> "by_sign", out |-> _void_by_sign_method(config, chart)]
    /\ pc' = "checked"
    /\ UNCHANGED <<config, env, req, chart, fn>>

VoidByOrb ==
    /\ pc = "sky"
    /\ result' = [method |-> "by_orb", out |-> _void_by_orb_method(config, chart)]
    /\ pc' = "checked"
    /\ UNCHANGED <<config, env, req, chart, fn>>

VoidLilly ==
    /\ pc = "sky"
    /\ result' = [method |-> "lilly", out |-> _void_lilly_method(config, chart)]
    /\ pc' = "checked"
    /\ UNCHANGED <<config, env, req, chart, fn>>

VoidConfigured ==
    /\ pc = "sky"
    /\ result' = [method |-> "configured",
                  out |-> _is_moon_void_of_course_enhanced(config, chart)]
    /\ pc' = "checked"
    /\ UNCHANGED <<config, env, req, chart, fn>>

VoidNext ==
    \/ \E planet \in MovedPlanets : \E longitude \in MoveTargets :
          MovePlanet(planet, longitude)
    \/ VoidBySign
    \/ VoidByOrb
    \/ VoidLilly
    \/ VoidConfigured

SpecVoid == VoidInit /\ [][VoidNext]_vars

\* C8: on every chart the lilly method returns the void value of the by_sign
\* method; its exception flag is true exactly when the Moon is in Cancer,
\* Taurus, Sagittarius or Pisces, whatever the by_sign toggles; and void stays
\* true when the exception flag is set.
C8_LillySameVoidOwnException ==
    (fn = "void" /\ pc = "checked" /\ result.method = "lilly") =>
        LET moon_sign == (env.eph["Moon"].lon % Circle) \div Deg(30)
            by_sign == _void_by_sign_method(config, chart)
        IN /\ result.out.void = by_sign.void
           /\ result.out.exception
                <=> moon_sign \in {SignOf("Cancer"), SignOf("Taurus"),
                                   SignOf("Sagittarius"), SignOf("Pisces")}
           /\ (by_sign.void /\ result.out.exception) => result.out.void

\* void and excepted at once, in a sign no by_sign toggle names
C8_Witness ==
    /\ fn = "void" /\ pc = "checked" /\ result.method = "lilly"
    /\ result.out.void /\ result.out.exception
    /\ (env.eph["Moon"].lon % Circle) \div Deg(30) = SignOf("Pisces")
    /\ ~_void_by_sign_method(config, chart).exception

\* some planet's aspect point lies ahead of the Moon in the Moon's sign
TargetAheadInSign ==
    LET moon == env.eph["Moon"].lon % Circle
    IN \E planet \in Planets \ {"Moon"} : \E aspect \in AspectTypes :
          \E side \in {-1, 1} :
             LET target == (env.eph[planet].lon + side * AspectDegrees(aspect)) % Circle
             IN /\ target \div Deg(30) = moon \div Deg(30)
                /\ target % Deg(30) > moon % Deg(30)

\* C9: under by_sign, for a Moon that is not stationary, void is true exactly
\* when no other planet and no aspect type gives an aspect point (the planet's
\* longitude plus or minus the aspect's degrees) in the Moon's sign at a degree
\* strictly greater than the Moon's; so a Moon at 29 degrees is void unless a
\* point falls in the final degree, and moving a planet there ends the voidness.
C9_VoidBySignIffNoTargetAhead ==
    (/\ fn = "void" /\ pc = "checked" /\ result.method = "by_sign"
     /\ Abs(env.eph["Moon"].speed) >= config.stationary_speed_threshold)
        => (result.out.void <=> ~TargetAheadInSign)

\* a planet was moved so that its aspect point lands in the final degree
C9_Witness ==
    /\ fn = "void" /\ pc = "checked" /\ result.method = "by_sign"
    /\ Abs(env.eph["Moon"].speed) >= config.stationary_speed_threshold
    /\ env.eph["Moon"].lon % Deg(30) >= Deg(29)
    /\ req.moves = 1
    /\ ~result.out.void

-----------------------------------------------------------------------------
(* Specification SpecSolar: the solar condition of one planet *)

\* the PlanetPosition calculate_chart builds from an ephemeris answer
PositionAt(longitude, speed) ==
    [longitude |-> longitude, speed |-> speed, sign |-> _get_sign(longitude),
     house |-> 0, dignity_score |-> 0, retrograde |-> speed < 0]

SolarPlanets == {"Sun", "Mercury", "Venus", "Mars"}

SolarSunPlaces == {At("Scorpio", 18, 45), At("Pisces", 29, 50), At("Gemini", 5, 0)}

\* the planet's longitude less the Sun's, in arcminutes
SolarOffsets ==
    {0, 3, 4, 17, 18, Deg(5), 510, 511, Deg(10) - 1, Deg(10), Deg(11), Deg(12),
     Deg(12) + 1, Deg(15), Deg(15) + 1, Deg(18), Deg(40), Deg(150),
     -3, -17, -18, -Deg(10), -Deg(12), -Deg(15), -Deg(170)}

SunAltitudes == {-Deg(10), -Deg(8), Deg(20)}

NoSolarRec == SolarRec(NoPlanet, 0, "none", FALSE, FALSE)

SolarInit ==
    /\ config \in Configs
    /\ env = Environment("none", QuietSky, HousesFailed, 0)
    /\ req \in {[planet |-> planet,
                 planet_pos |-> PositionAt((sun + offset) % Circle, 60),
                 sun_pos |-> PositionAt(sun, 59),
                 sun_altitude |-> altitude] :
                   planet \in SolarPlanets, sun \in SolarSunPlaces,
                   offset \in SolarOffsets, altitude \in SunAltitudes}
    /\ pc = "start"
    /\ chart = NoChart
    /\ result = NoSolarRec
    /\ fn = "solar"

AnalyzeSolarCondition ==
    /\ pc = "start"
    /\ result' = _analyze_enhanced_solar_condition(config, req.planet, req.planet_pos,
                                                   req.sun_pos, req.sun_altitude)
    /\ pc' = "done"
    /\ UNCHANGED <<config, env, req, chart, fn>>

SolarNext == AnalyzeSolarCondition

SpecSolar == SolarInit /\ [][SolarNext]_vars

\* the angular distance of the planet from the Sun, at most 180 degrees
Elongation ==
    LET d == Abs(req.planet_pos.longitude - req.sun_pos.longitude) % Circle
    IN IF d > Deg(180) THEN Circle - d ELSE d

\* the visibility exception of Mercury and Venus
VisibilityException ==
    /\ Elongation >= Deg(10)
    /\ \/ /\ req.planet = "Mercury"
          /\ \/ req.planet_pos.longitude \div Deg(30)
                   \in {SignOf("Gemini"), SignOf("Virgo")}
             \/ Elongation >= Deg(18)
       \/ /\ req.planet = "Venus"
          /\ (req.sun_altitude <= -Deg(8) \/ Elongation >= Deg(40))

\* C10: the solar condition is the first match of the hierarchy: the Sun itself
\* is FREE with elongation 0; an elongation within the cazimi orb is CAZIMI
\* without exception flag (exact cazimi within 3 arcminutes); else within the
\* combustion orb COMBUSTION, or FREE with the exception flag when the
\* visibility exception holds; else within the under-beams orb UNDER_BEAMS, or
\* FREE with the exception flag; else FREE without exception flag.
C10_SolarHierarchy ==
    (fn = "solar" /\ pc = "done") =>
        result =
            IF req.planet = "Sun" THEN SolarRec("Sun", 0, "FREE", FALSE, FALSE)
            ELSE IF Elongation <= config.cazimi_orb_arcmin
            THEN SolarRec(req.planet, Elongation, "CAZIMI", Elongation <= 3, FALSE)
            ELSE IF Elongation <= config.combustion_orb
            THEN SolarRec(req.planet, Elongation,
                          IF VisibilityException THEN "FREE" ELSE "COMBUSTION",
                          FALSE, VisibilityException)
            ELSE IF Elongation <= config.under_beams_orb
            THEN SolarRec(req.planet, Elongation,
                          IF VisibilityException THEN "FREE" ELSE "UNDER_BEAMS",
                          FALSE, VisibilityException)
            ELSE SolarRec(req.planet, Elongation, "FREE", FALSE, FALSE)

\* within the combustion orb, yet free by the visibility exception
C10_Witness ==
    /\ fn = "solar" /\ pc = "done"
    /\ Elongation > config.cazimi_orb_arcmin
    /\ Elongation <= config.combustion_orb
    /\ result.condition = "FREE" /\ result.traditional_exception

\* the visibility exception the code computes for the planet analysed
ComputedException ==
    _check_enhanced_combustion_exception(req.planet, req.planet_pos, req.sun_pos,
                                         req.sun_altitude)

\* C26: the visibility exception is false for every planet other than Mercury
\* and Venus and for every elongation below 10 degrees; so, with a combustion
\* orb below 10 degrees, a planet whose elongation is within the combustion orb
\* is CAZIMI or COMBUSTION, never FREE; and a planet classified COMBUSTION or
\* UNDER_BEAMS has traditional_exception false.  (No elongation is computed for
\* the Sun itself, which is not analysed.)
C26_NoExceptionWithinTenDegrees ==
    (fn = "solar" /\ pc = "done") =>
        /\ (req.planet \notin {"Mercury", "Venus"} \/ Elongation < Deg(10))
              => (~ComputedException /\ ~result.traditional_exception)
        /\ (/\ req.planet # "Sun"
            /\ config.combustion_orb < Deg(10)
            /\ Elongation <= config.combustion_orb)
              => result.condition \in {"CAZIMI", "COMBUSTION"}
        /\ result.condition \in {"COMBUSTION", "UNDER_BEAMS"}
              => ~result.traditional_exception

\* Venus within a combustion orb below 10 degrees under a dark sky: combust,
\* without exception
C26_Witness ==
    /\ fn = "solar" /\ pc = "done"
    /\ req.planet = "Venus" /\ req.sun_altitude <= -Deg(8)
    /\ config.combustion_orb < Deg(10)
    /\ Elongation > config.cazimi_orb_arcmin /\ Elongation <= config.combustion_orb
    /\ result.condition = "COMBUSTION" /\ ~result.traditional_exception

-----------------------------------------------------------------------------
(* Specification SpecHouse: the house lookup on cusp lists and longitudes *)

\* cusps as the house calculation returns them: unequal houses, opposite cusps
\* 180 degrees apart, the first cusp at the ascendant
UnequalCusps(asc) ==
    LET widths == <<0, Deg(24), Deg(52), Deg(85), Deg(121), Deg(153)>>
    IN [i \in 1..12 |-> (asc + (IF i <= 6 THEN widths[i]
                                ELSE Deg(180) + widths[i - 6])) % Circle]

HouseCusps ==
    {FallbackHouses, EqualCusps(At("Aries", 15, 0)), EqualCusps(At("Pisces", 29, 59)),
     UnequalCusps(At("Aries", 0, 0)), UnequalCusps(At("Cancer", 10, 0)),
     UnequalCusps(At("Scorpio", 27, 30)), UnequalCusps(At("Pisces", 29, 59))}

\* longitudes as the ephemeris returns them, on and around cusps and 0 degrees
HouseLongitudes(houses) ==
    {0, 1, Circle - 1, Deg(100), Deg(275) + 30}
    \cup {houses[i] : i \in 1..12}
    \cup {(houses[i] + Circle - 1) % Circle : i \in 1..12}

\* the same cusps with the cusp at list position k + 1 listed first
RotateCusps(houses, k) == [i \in 1..12 |-> houses[((i - 1 + k) % 12) + 1]]

NoHouse == [house |-> 0, rotated_house |-> 0]

HouseInit ==
    /\ config = DefaultConfig
    /\ env = Environment("none", QuietSky, HousesFailed, 0)
    /\ \E houses \in HouseCusps : \E longitude \in HouseLongitudes(houses) :
          req = [longitude |-> longitude, houses |-> houses, rotation |-> 0]
    /\ pc = "start"
    /\ chart = NoChart
    /\ result = NoHouse
    /\ fn = "house"

CalculateHousePosition ==
    /\ pc = "start"
    /\ result' = [result EXCEPT
                    !.house = _calculate_house_position(req.longitude, req.houses)]
    /\ pc' = "placed"
    /\ UNCHANGED <<config, env, req, chart, fn>>

\* the lookup repeated on the rotated list
CalculateRotatedHousePosition(k) ==
    /\ pc = "placed"
    /\ req' = [req EXCEPT !.rotation = k]
    /\ result' = [result EXCEPT
                    !.rotated_house =
                        _calculate_house_position(req.longitude,
                                                  RotateCusps(req.houses, k))]
    /\ pc' = "done"
    /\ UNCHANGED <<config, env, chart, fn>>

HouseNext ==
    \/ CalculateHousePosition
    \/ \E k \in 1..11 : CalculateRotatedHousePosition(k)

SpecHouse == HouseInit /\ [][HouseNext]_vars

\* the length of the arc from longitude a forward to longitude b
ArcFrom(a, b) == (b - a + Circle) % Circle

RECURSIVE ArcSum(_, _)
ArcSum(houses, i) ==
    IF i > 12 THEN 0
    ELSE ArcFrom(houses[i], houses[(i % 12) + 1]) + ArcSum(houses, i + 1)

\* twelve arcs of positive length that go round the circle once
ValidPartition(houses) ==
    /\ \A i \in 1..12 : ArcFrom(houses[i], houses[(i % 12) + 1]) > 0
    /\ ArcSum(houses, 1) = Circle

\* the longitude lies in [cusp h, cusp h+1)
InHouseArc(houses, h, longitude) ==
    ArcFrom(houses[h], longitude % Circle) < ArcFrom(houses[h], houses[(h % 12) + 1])

\* C11: for 12 cusps that partition the circle, the longitude lies in exactly
\* one arc [cusp i, cusp i+1), the house returned is that arc's number in
\* 1..12, and so the "house 1 when no arc matches" default is never taken.
C11_ExactlyOneHouse ==
    (fn = "house" /\ pc # "start" /\ ValidPartition(req.houses)) =>
        /\ result.house \in 1..12
        /\ {h \in 1..12 : InHouseArc(req.houses, h, req.longitude)} = {result.house}

\* a longitude in the arc that crosses 0 degrees, which is not the first arc
C11_Witness ==
    /\ fn = "house" /\ pc # "start" /\ ValidPartition(req.houses)
    /\ result.house # 1
    /\ req.houses[result.house] > req.houses[(result.house % 12) + 1]
    /\ req.longitude < req.houses[(result.house % 12) + 1]

\* C12 (as claimed): the same cusps supplied with a different cusp listed first
\* give every longitude the same house.
C12_SameHouseWhenRotated ==
    (fn = "house" /\ pc = "done") => result.rotated_house = result.house

\* C12 (amended): the same cusps supplied with a different cusp listed first
\* give every longitude the same arc, that is the same pair of bounding cusps;
\* the house number is the arc's position in the list supplied, so it shifts
\* with the rotation.
C12_SameArcWhenRotated ==
    (fn = "house" /\ pc = "done") =>
        LET rotated == RotateCusps(req.houses, req.rotation)
        IN /\ rotated[result.rotated_house] = req.houses[result.house]
           /\ rotated[(result.rotated_house % 12) + 1]
                 = req.houses[(result.house % 12) + 1]
           /\ result.rotated_house = ((result.house - 1 - req.rotation) % 12) + 1

C12_Witness ==
    /\ fn = "house" /\ pc = "done" /\ req.rotation # 0
    /\ result.rotated_house # result.house
    /\ RotateCusps(req.houses, req.rotation)[result.rotated_house]
          = req.houses[result.house]

-----------------------------------------------------------------------------
(* Specification SpecAspect: the aspect of one planet pair, taken in both
   orders *)

AspectPairs == {<<"Sun", "Mars">>, <<"Moon", "Venus">>, <<"Mars", "Saturn">>}

AspectFirstPlaces == {At("Aries", 10, 0), At("Gemini", 29, 30), At("Virgo", 0, 20)}

\* the second planet's distance from the exact aspect point, in arcminutes
AspectOffsets == {-Deg(7), -Deg(3), -20, -5, 0, 5, 20, Deg(3), Deg(7), Deg(9) + 30}

\* speeds in arcminutes per day: direct and retrograde, equal and unequal
AspectSpeeds == {-70, -4, 4, 70, 790}

NoPairAspects == [forward |-> <<>>, backward |-> <<>>]

AspectInit ==
    /\ config \in Configs
    /\ env = Environment("none", QuietSky, HousesFailed, 0)
    /\ \E pair \in AspectPairs, first \in AspectFirstPlaces, a \in AspectTypes,
          side \in {-1, 1}, offset \in AspectOffsets, v1, v2 \in AspectSpeeds :
          req = [planet1 |-> pair[1], planet2 |-> pair[2],
                 planets |->
                    [p \in {pair[1], pair[2]} |->
                        IF p = pair[1] THEN PositionAt(first, v1)
                        ELSE PositionAt((first + side * AspectDegrees(a) + offset
                                           + Circle) % Circle, v2)]]
    /\ pc = "start"
    /\ chart = NoChart
    /\ result = NoPairAspects
    /\ fn = "aspect"

\* the pair as _calculate_enhanced_aspects takes it from the planet list
AspectOfPair ==
    /\ pc = "start"
    /\ result' = [result EXCEPT
                    !.forward = PairAspect(config, req.planets, req.planet1,
                                           req.planet2)]
    /\ pc' = "forward"
    /\ UNCHANGED <<config, env, req, chart, fn>>

\* the same pair with the two planets in the opposite order
AspectOfPairReversed ==
    /\ pc = "forward"
    /\ result' = [result EXCEPT
                    !.backward = PairAspect(config, req.planets, req.planet2,
                                            req.planet1)]
    /\ pc' = "done"
    /\ UNCHANGED <<config, env, req, chart, fn>>

AspectNext == AspectOfPair \/ AspectOfPairReversed

SpecAspect == AspectInit /\ [][AspectNext]_vars

\* C13: aspect detection is symmetric in the planet pair: whether an aspect is
\* recorded, its type, orb, applying flag and degrees to exact are the same
\* with the two planets in the opposite order, equal absolute speeds included.
C13_AspectSymmetric ==
    (fn = "aspect" /\ pc = "done") =>
        /\ Len(result.forward) = Len(result.backward)
        /\ Len(result.forward) = 1 =>
              /\ result.forward[1].aspect = result.backward[1].aspect
              /\ result.forward[1].orb = result.backward[1].orb
              /\ result.forward[1].applying = result.backward[1].applying
              /\ result.forward[1].degrees_to_exact
                    = result.backward[1].degrees_to_exact
              /\ result.forward[1].planet1 = result.backward[1].planet2
              /\ result.forward[1].planet2 = result.backward[1].planet1

\* an applying aspect between planets of equal absolute speed, one retrograde
C13_Witness ==
    /\ fn = "aspect" /\ pc = "done"
    /\ Len(result.forward) = 1 /\ result.forward[1].applying
    /\ result.backward[1].applying
    /\ req.planets[req.planet1].speed = -req.planets[req.planet2].speed

-----------------------------------------------------------------------------
(* Specification SpecTimezone: TimezoneManager.parse_datetime_with_timezone.
   A naive local time is a date and the minutes since midnight; an offset is in
   minutes east of UTC.  The zones are those of the time zone database for 2021:
   America/New_York springs forward on 2021-03-14 at 02:00 and falls back on
   2021-11-07 at 02:00. *)

KnownZones == {"America/New_York", "Europe/London", "UTC"}

\* the offsets a zone gives a naive local time: kind "unique"; "ambiguous"
\* (first the daylight, second the standard occurrence); or "gap" (first the
\* offset before the transition, second the offset after it)
ZoneRule(zone, date, minute) ==
    LET unique(o) == [kind |-> "unique", first |-> o, second |-> o]
    IN IF zone = "America/New_York"
       THEN CASE date = "2021-03-14" ->
                    IF minute < 120 THEN unique(-300)
                    ELSE IF minute < 180
                    THEN [kind |-> "gap", first |-> -300, second |-> -240]
                    ELSE unique(-240)
              [] date = "2021-11-07" ->
                    IF minute < 60 THEN unique(-240)
                    ELSE IF minute < 120
                    THEN [kind |-> "ambiguous", first |-> -240, second |-> -300]
                    ELSE unique(-300)
              [] date = "2021-06-01" -> unique(-240)
              [] OTHER -> unique(-300)
       ELSE IF zone = "Europe/London" /\ date = "2021-06-01" THEN unique(60)
       ELSE unique(0)

\* pytz: tz.localize(dt, is_dst), is_dst one of "None", "False", "True".  Only
\* is_dst=None raises on an ambiguous or non-existent time; otherwise is_dst
\* chooses the occurrence, and a non-existent time keeps its wall-clock fields
PytzLocalize(zone, date, minute, is_dst) ==
    LET rule == ZoneRule(zone, date, minute)
        aware(o) == [raised |-> "none", minute |-> minute, offset |-> o]
        dst == IF rule.kind = "gap" THEN rule.second ELSE rule.first
        std == IF rule.kind = "gap" THEN rule.first ELSE rule.second
    IN IF rule.kind = "unique" THEN aware(rule.first)
       ELSE IF is_dst = "None"
       THEN [raised |-> IF rule.kind = "gap" THEN "NonExistentTimeError"
                        ELSE "AmbiguousTimeError",
             minute |-> minute, offset |-> 0]
       ELSE IF is_dst = "True" THEN aware(dst) ELSE aware(std)

\* zoneinfo: dt_naive.replace(tzinfo=tz), fold=0: the first occurrence of an
\* ambiguous time, the offset before the transition for a non-existent one
ZoneInfoReplace(zone, date, minute) ==
    [raised |-> "none", minute |-> minute,
     offset |-> ZoneRule(zone, date, minute).first]

\* a coordinate lookup that never finds a zone
TimezoneLookupAlwaysNone(tf) == "None"

\* get_timezone_for_location: the finder's answer, None if it raised
get_timezone_for_location(tf) == IF tf = "raises" THEN "None" ELSE tf

\* parse_datetime_with_timezone; zoneinfo tells whether ZoneInfo was imported
parse_datetime_with_timezone(zoneinfo, tf, date, minute, timezone_str, has_coords) ==
    LET Zone(name) == [name |-> name, has_localize |-> ~zoneinfo]
        UTCZone == [name |-> "UTC", has_localize |-> TRUE]
        FromName(name) == IF name \in KnownZones THEN Zone(name) ELSE UTCZone
        FromLookup(tz_str) == IF tz_str # "None" THEN FromName(tz_str) ELSE UTCZone
        Localized(tz) ==
            IF tz.has_localize
            THEN LET Handle(first) ==
                         IF first.raised = "AmbiguousTimeError"
                         THEN PytzLocalize(tz.name, date, minute, "False")
                         ELSE IF first.raised = "NonExistentTimeError"
                         THEN PytzLocalize(tz.name, date, minute + 60, "False")
                         ELSE first
                 IN Handle(PytzLocalize(tz.name, date, minute, "False"))
            ELSE ZoneInfoReplace(tz.name, date, minute)
        Return(tz, dt_local) ==
            [timezone_used |-> tz.name, local_minute |-> dt_local.minute,
             offset |-> dt_local.offset, utc_minute |-> dt_local.minute - dt_local.offset]
        Parse(tz) == Return(tz, Localized(tz))
    IN Parse(IF timezone_str # "" THEN FromName(timezone_str)
             ELSE IF has_coords THEN FromLookup(get_timezone_for_location(tf))
             ELSE UTCZone)

NoParse == [timezone_used |-> "none", local_minute |-> 0, offset |-> 0, utc_minute |-> 0]

TimezoneInit ==
    /\ config = DefaultConfig
    /\ \E zoneinfo \in BOOLEAN,
          tf \in {"America/New_York", "Antarctica/Nowhere", "None", "raises"} :
          env = [zoneinfo |-> zoneinfo, tf |-> tf]
    /\ \E date \in {"2021-01-15", "2021-03-14", "2021-06-01", "2021-11-07"},
          minute \in {30, 90, 150, 210, 720},
          timezone_str \in {"", "America/New_York", "Europe/London", "Not/AZone"},
          has_coords \in BOOLEAN :
          req = [date |-> date, minute |-> minute, timezone_str |-> timezone_str,
                 has_coords |-> has_coords]
    /\ pc = "start"
    /\ chart = NoChart
    /\ result = NoParse
    /\ fn = "timezone"

ParseDatetimeWithTimezone ==
    /\ pc = "start"
    /\ result' = parse_datetime_with_timezone(env.zoneinfo, env.tf, req.date,
                     req.minute, req.timezone_str, req.has_coords)
    /\ pc' = "done"
    /\ UNCHANGED <<config, env, req, chart, fn>>

SpecTimezone == TimezoneInit /\ [][ParseDatetimeWithTimezone]_vars

\* C17: the ambiguous fall-back time 2021-11-07 01:30 in America/New_York is
\* resolved to its standard-time occurrence, offset UTC-05:00 and UTC 06:30, on
\* the zoneinfo path and on the pytz path.
C17_AmbiguousTimeIsStandard ==
    (/\ fn = "timezone" /\ pc = "done"
     /\ req.date = "2021-11-07" /\ req.minute = 90
     /\ result.timezone_used = "America/New_York")
        => /\ result.offset = -300
           /\ result.utc_minute = 6 * 60 + 30

\* C18: the non-existent spring-forward time 2021-03-14 02:30 in
\* America/New_York is advanced one hour, to 03:30 local with offset UTC-04:00
\* and UTC 07:30, on the zoneinfo path and on the pytz path.
C18_NonExistentTimeAdvanced ==
    (/\ fn = "timezone" /\ pc = "done"
     /\ req.date = "2021-03-14" /\ req.minute = 150
     /\ result.timezone_used = "America/New_York")
        => /\ result.local_minute = 3 * 60 + 30
           /\ result.offset = -240
           /\ result.utc_minute = 7 * 60 + 30

\* the zone the coordinates give, "None" without coordinates or without answer
CoordinateZone ==
    IF req.has_coords /\ env.tf \in KnownZones THEN env.tf ELSE "None"

\* C19 (as claimed): the zone used is the explicit name, else the zone of the
\* coordinates, else UTC: the zone of the coordinates is used whenever the
\* explicit name is absent or fails to resolve and the lookup succeeds, UTC
\* only when neither resolves.
C19_CoordinatesWhenNameFails ==
    (fn = "timezone" /\ pc = "done") =>
        result.timezone_used =
            IF req.timezone_str \in KnownZones THEN req.timezone_str
            ELSE IF CoordinateZone # "None" THEN CoordinateZone
            ELSE "UTC"

\* C19 (amended): the zone used is the explicit name if one is given and
\* resolves; UTC if one is given and fails to resolve, whatever the coordinates;
\* with no explicit name the zone of the coordinates if the lookup succeeds and
\* the zone resolves, and UTC otherwise.
C19_CoordinatesOnlyWithoutName ==
    (fn = "timezone" /\ pc = "done") =>
        result.timezone_used =
            IF req.timezone_str # ""
            THEN (IF req.timezone_str \in KnownZones THEN req.timezone_str ELSE "UTC")
            ELSE IF CoordinateZone # "None" THEN CoordinateZone
            ELSE "UTC"

\* no explicit name, and the zone of the coordinates is used
C19_Witness ==
    /\ fn = "timezone" /\ pc = "done"
    /\ req.timezone_str = "" /\ req.has_coords
    /\ result.timezone_used = "America/New_York" /\ result.offset = -240

-----------------------------------------------------------------------------
(* Specification SpecQuestion: TraditionalHoraryQuestionAnalyzer.analyze_question.
   A question and a keyword are sequences of characters, so that `keyword in
   question` is the substring test the code makes. *)

\* question.lower()
Lower(question) ==
    LET upper == <<"A", "B", "C", "D", "E", "F", "G", "H", "I", "J", "K", "L", "M",
                   "N", "O", "P", "Q", "R", "S", "T", "U", "V", "W", "X", "Y", "Z">>
        lower == <<"a", "b", "c", "d", "e", "f", "g", "h", "i", "j", "k", "l", "m",
                   "n", "o", "p", "q", "r", "s", "t", "u", "v", "w", "x", "y", "z">>
        low(c) == IF \E i \in 1..26 : upper[i] = c
                  THEN lower[CHOOSE i \in 1..26 : upper[i] = c] ELSE c
    IN [i \in 1..Len(question) |-> low(question[i])]

\* any(keyword in question for keyword in keywords)
AnyIn(keywords, question) ==
    \E n \in 1..Len(keywords) :
        \E i \in 1..(Len(question) - Len(keywords[n]) + 1) :
            SubSeq(question, i, i + Len(keywords[n]) - 1) = keywords[n]

\* self.house_meanings, by house number
house_meanings ==
    <<<<<<"q", "u", "e", "r", "e", "n", "t">>,
        <<"s", "e", "l", "f">>,
        <<"b", "o", "d", "y">>,
        <<"l", "i", "f", "e">>,
        <<"p", "e", "r", "s", "o", "n", "a", "l", "i", "t", "y">>,
        <<"a", "p", "p", "e", "a", "r", "a", "n", "c", "e">>>>,
      <<<<"m", "o", "n", "e", "y">>,
        <<"p", "o", "s", "s", "e", "s", "s", "i", "o", "n", "s">>,
        <<"m", "o", "v", "e", "a", "b", "l", "e", " ", "g", "o", "o", "d", "s">>,
        <<"i", "n", "c", "o", "m", "e">>,
        <<"r", "e", "s", "o", "u", "r", "c", "e", "s">>,
        <<"v", "a", "l", "u", "e", "s">>>>,
      <<<<"s", "i", "b", "l", "i", "n", "g", "s">>,
        <<"n", "e", "i", "g", "h", "b", "o", "r", "s">>,
        <<"s", "h", "o", "r", "t", " ", "j", "o", "u", "r", "n", "e", "y", "s">>,
        <<"c", "o", "m", "m", "u", "n", "i", "c", "a", "t", "i", "o", "n">>,
        <<"l", "e", "t", "t", "e", "r", "s">>,
        <<"r", "u", "m", "o", "r", "s">>>>,
      <<<<"f", "a", "t", "h", "e", "r">>,
        <<"h", "o", "m", "e">>,
        <<"l", "a", "n", "d">>,
        <<"p", "r", "o", "p", "e", "r", "t", "y">>,
        <<"e", "n", "d", "i", "n", "g", "s">>,
        <<"f", "o", "u", "n", "d", "a", "t", "i", "o", "n", "s">>,
        <<"g", "r", "a", "v", "e", "s">>>>,
      <<<<"c", "h", "i", "l", "d", "r", "e", "n">>,
        <<"p", "r", "e", "g", "n", "a", "n", "c", "y">>,
        <<"p", "l", "e", "a", "s", "u", "r", "e">>,
        <<"g", "a", "m", "b", "l", "i", "n", "g">>,
        <<"c", "r", "e", "a", "t", "i", "v", "i", "t", "y">>,
        <<"e", "n", "t", "e", "r", "t", "a", "i", "n", "m", "e", "n", "t">>>>,
      <<<<"i", "l", "l", "n", "e", "s", "s">>,
        <<"s", "e", "r", "v", "a", "n", "t", "s">>,
        <<"s", "m", "a", "l", "l", " ", "a", "n", "i", "m", "a", "l", "s">>,
        <<"w", "o", "r", "k">>,
        <<"d", "a", "i", "l", "y", " ", "r", "o", "u", "t", "i", "n", "e">>,
        <<"u", "n", "c", "l", "e", "/", "a", "u", "n", "t">>>>,
      <<<<"s", "p", "o", "u", "s", "e">>,
        <<"p", "a", "r", "t", "n", "e", "r">>,
        <<"o", "p", "e", "n", " ", "e", "n", "e", "m", "i", "e", "s">>,
        <<"t", "h", "i", "e", "v", "e", "s">>,
        <<"o", "t", "h", "e", "r", "s">>,
        <<"c", "o", "n", "t", "r", "a", "c", "t", "s">>>>,
      <<<<"d", "e", "a", "t", "h">>,
        <<"p", "a", "r", "t", "n", "e", "r", "'", "s", " ", "m", "o", "n", "e", "y">>,
        <<"w", "i", "l", "l", "s">>,
        <<"t", "r", "a", "n", "s", "f", "o", "r", "m", "a", "t", "i", "o", "n">>,
        <<"f", "e", "a", "r">>,
        <<"s", "u", "r", "g", "e", "r", "y">>>>,
      <<<<"l", "o", "n", "g", " ", "j", "o", "u", "r", "n", "e", "y", "s">>,
        <<"f", "o", "r", "e", "i", "g", "n", " ", "l", "a", "n", "d", "s">>,
        <<"r", "e", "l", "i", "g", "i", "o", "n">>,
        <<"l", "a", "w">>,
        <<"h", "i", "g", "h", "e", "r", " ", "l", "e", "a", "r", "n", "i", "n", "g">>,
        <<"d", "r", "e", "a", "m", "s">>>>,
      <<<<"m", "o", "t", "h", "e", "r">>,
        <<"c", "a", "r", "e", "e", "r">>,
        <<"h", "o", "n", "o", "r">>,
        <<"r", "e", "p", "u", "t", "a", "t", "i", "o", "n">>,
        <<"a", "u", "t", "h", "o", "r", "i", "t", "y">>,
        <<"g", "o", "v", "e", "r", "n", "m", "e", "n", "t">>>>,
      <<<<"f", "r", "i", "e", "n", "d", "s">>,
        <<"h", "o", "p", "e", "s">>,
        <<"w", "i", "s", "h", "e", "s">>,
        <<"a", "d", "v", "i", "s", "o", "r", "s">>,
        <<"k", "i", "n", "g", "'", "s", " ", "m", "o", "n", "e", "y">>,
        <<"g", "r", "o", "u", "p", "s">>>>,
      <<<<"h", "i", "d", "d", "e", "n", " ", "e", "n", "e", "m", "i", "e", "s">>,
        <<"l", "a", "r", "g", "e", " ", "a", "n", "i", "m", "a", "l", "s">>,
        <<"p", "r", "i", "s", "o", "n", "s">>,
        <<"s", "e", "c", "r", "e", "t", "s">>,
        <<"s", "e", "l", "f", "-", "u", "n", "d", "o", "i", "n", "g">>,
        <<"w", "i", "t", "c", "h", "c", "r", "a", "f", "t">>>>>>

\* self.question_patterns, in the order of the dict
question_patterns ==
    <<[q_type |-> "lost_object", keywords |->
        <<<<"w", "h", "e", "r", "e", " ", "i", "s">>,
          <<"l", "o", "s", "t">>,
          <<"m", "i", "s", "s", "i", "n", "g">>,
          <<"f", "i", "n", "d">>,
          <<"s", "t", "o", "l", "e", "n">>>>],
      [q_type |-> "marriage", keywords |->
        <<<<"m", "a", "r", "r", "y">>,
          <<"w", "e", "d", "d", "i", "n", "g">>,
          <<"s", "p", "o", "u", "s", "e">>,
          <<"h", "u", "s", "b", "a", "n", "d">>,
          <<"w", "i", "f", "e">>>>],
      [q_type |-> "pregnancy", keywords |->
        <<<<"p", "r", "e", "g", "n", "a", "n", "t">>,
          <<"c", "h", "i", "l", "d">>,
          <<"b", "a", "b", "y">>,
          <<"c", "o", "n", "c", "e", "i", "v", "e">>>>],
      [q_type |-> "travel", keywords |->
        <<<<"j", "o", "u", "r", "n", "e", "y">>,
          <<"t", "r", "a", "v", "e", "l">>,
          <<"t", "r", "i", "p">>,
          <<"g", "o", " ", "t", "o">>,
          <<"v", "i", "s", "i", "t">>>>],
      [q_type |-> "money", keywords |->
        <<<<"m", "o", "n", "e", "y">>,
          <<"w", "e", "a", "l", "t", "h">>,
          <<"r", "i", "c", "h">>,
          <<"p", "r", "o", "f", "i", "t">>,
          <<"g", "a", "i", "n">>,
          <<"d", "e", "b", "t">>>>],
      [q_type |-> "career", keywords |->
        <<<<"j", "o", "b">>,
          <<"c", "a", "r", "e", "e", "r">>,
          <<"w", "o", "r", "k">>,
          <<"e", "m", "p", "l", "o", "y", "m", "e", "n", "t">>,
          <<"b", "u", "s", "i", "n", "e", "s", "s">>>>],
      [q_type |-> "health", keywords |->
        <<<<"s", "i", "c", "k">>,
          <<"i", "l", "l", "n", "e", "s", "s">>,
          <<"d", "i", "s", "e", "a", "s", "e">>,
          <<"h", "e", "a", "l", "t", "h">>,
          <<"r", "e", "c", "o", "v", "e", "r">>,
          <<"d", "i", "e">>>>],
      [q_type |-> "lawsuit", keywords |->
        <<<<"c", "o", "u", "r", "t">>,
          <<"l", "a", "w", "s", "u", "i", "t">>,
          <<"l", "e", "g", "a", "l">>,
          <<"j", "u", "d", "g", "e">>,
          <<"t", "r", "i", "a", "l">>>>],
      [q_type |-> "relationship", keywords |->
        <<<<"l", "o", "v", "e">>,
          <<"r", "e", "l", "a", "t", "i", "o", "n", "s", "h", "i", "p">>,
          <<"f", "r", "i", "e", "n", "d">>,
          <<"e", "n", "e", "m", "y">>>>]>>

\* self.person_keywords, in the order of the dict
person_keywords ==
    <<[h |-> 4, kws |->
        <<<<"f", "a", "t", "h", "e", "r">>,
          <<"d", "a", "d">>,
          <<"g", "r", "a", "n", "d", "f", "a", "t", "h", "e", "r">>,
          <<"s", "t", "e", "p", "f", "a", "t", "h", "e", "r">>>>],
      [h |-> 10, kws |->
        <<<<"m", "o", "t", "h", "e", "r">>,
          <<"m", "o", "m">>,
          <<"m", "u", "m">>,
          <<"s", "t", "e", "p", "m", "o", "t", "h", "e", "r">>>>],
      [h |-> 7, kws |->
        <<<<"s", "p", "o", "u", "s", "e">>,
          <<"h", "u", "s", "b", "a", "n", "d">>,
          <<"w", "i", "f", "e">>,
          <<"p", "a", "r", "t", "n", "e", "r">>>>],
      [h |-> 3, kws |->
        <<<<"b", "r", "o", "t", "h", "e", "r">>,
          <<"s", "i", "s", "t", "e", "r">>,
          <<"s", "i", "b", "l", "i", "n", "g">>>>],
      [h |-> 5, kws |->
        <<<<"c", "h", "i", "l", "d">>,
          <<"s", "o", "n">>,
          <<"d", "a", "u", "g", "h", "t", "e", "r">>,
          <<"b", "a", "b", "y">>>>],
      [h |-> 11, kws |->
        <<<<"f", "r", "i", "e", "n", "d">>,
          <<"a", "l", "l", "y">>,
          <<"b", "e", "n", "e", "f", "a", "c", "t", "o", "r">>>>]>>


_turn(base, offset) == ((base + offset - 1) % 12) + 1

_determine_question_type(question) ==
    LET hits == {n \in 1..Len(question_patterns) :
                    AnyIn(question_patterns[n].keywords, question)}
    IN IF hits = {} THEN "general"
       ELSE question_patterns[CHOOSE n \in hits : \A k \in hits : n <= k].q_type

_determine_houses(question, question_type) ==
    LET question_lower == Lower(question)
        named == {n \in 1..Len(person_keywords) :
                     AnyIn(person_keywords[n].kws, question_lower)}
        has_subject == named # {}
        subject_house ==
            person_keywords[CHOOSE n \in named : \A k \in named : n <= k].h
        death_words == <<<<"d", "i", "e">>, <<"d", "e", "a", "t", "h">>, <<"p", "a", "s", "s", " ", "a", "w", "a", "y">>, <<"f", "u", "n", "e", "r", "a", "l">>>>
        illness_words == <<<<"s", "i", "c", "k">>, <<"i", "l", "l", "n", "e", "s", "s">>, <<"d", "i", "s", "e", "a", "s", "e">>, <<"r", "e", "c", "o", "v", "e", "r">>>>
        In(h, houses) == \E i \in 1..Len(houses) : houses[i] = h
        type_house ==
            IF question_type = "lost_object" THEN 2
            ELSE IF question_type = "marriage"
                    \/ AnyIn(<<<<"s", "p", "o", "u", "s", "e">>>>, question_lower) THEN 7
            ELSE IF question_type = "pregnancy"
                    \/ AnyIn(<<<<"c", "h", "i", "l", "d">>>>, question_lower) THEN 5
            ELSE IF question_type = "travel"
            THEN (IF AnyIn(<<<<"f", "a", "r">>, <<"f", "o", "r", "e", "i", "g", "n">>, <<"a", "b", "r", "o", "a", "d">>>>, question_lower)
                  THEN 9 ELSE 3)
            ELSE IF question_type = "money" THEN 2
            ELSE IF question_type = "career" THEN 10
            ELSE IF question_type = "health" THEN 6
            ELSE IF question_type = "lawsuit" THEN 7
            ELSE 7
        RECURSIVE Keywords(_, _)
        Keywords(houses, house) ==
            IF house > 12 THEN houses
            ELSE IF ~In(house, houses) /\ AnyIn(house_meanings[house], question_lower)
            THEN Keywords(Append(houses, house), house + 1)
            ELSE Keywords(houses, house + 1)
        RECURSIVE Dedup(_, _)
        Dedup(houses, seen) ==
            IF houses = <<>> THEN seen
            ELSE IF In(Head(houses), seen) THEN Dedup(Tail(houses), seen)
            ELSE Dedup(Tail(houses), Append(seen, Head(houses)))
        houses ==
            IF has_subject
            THEN IF AnyIn(death_words, question_lower)
                 THEN <<1, _turn(subject_house, 8), subject_house>>
                 ELSE IF AnyIn(illness_words, question_lower)
                 THEN <<1, _turn(subject_house, 6), subject_house>>
                 ELSE <<1, subject_house>>
            ELSE Keywords(<<1, type_house>>, 1)
    IN Dedup(houses, <<>>)

_determine_significators(houses, question_type) ==
    [querent_house |-> 1,
     quesited_house |-> IF Len(houses) > 1 THEN houses[2] ELSE 7,
     moon_role |-> "co-significator of querent and general flow",
     special_significators |->
        IF question_type = "marriage"
        THEN [venus |-> "natural significator of love",
              mars |-> "natural significator of men"]
        ELSE IF question_type = "money"
        THEN [jupiter |-> "greater fortune", venus |-> "lesser fortune"]
        ELSE IF question_type = "career"
        THEN [sun |-> "honor and reputation", jupiter |-> "success"]
        ELSE IF question_type = "health"
        THEN [mars |-> "fever and inflammation", saturn |-> "chronic illness"]
        ELSE <<>>]

analyze_question(question) ==
    LET Significators(question_type, houses) ==
            [question_type |-> question_type,
             relevant_houses |-> houses,
             significators |-> _determine_significators(houses, question_type),
             traditional_analysis |-> TRUE]
        Houses(question_type) ==
            Significators(question_type, _determine_houses(question, question_type))
    IN Houses(_determine_question_type(Lower(question)))

QuestionInit ==
    /\ config = DefaultConfig
    /\ env = [fault |-> "none"]
    /\ \E opening \in {<<"I", "s", " ", "m", "y", " ">>, <<"W", "i", "l", "l", " ", "m", "y", " ">>, <<"W", "h", "e", "r", "e", " ", "i", "s", " ", "m", "y", " ">>},
          subject \in {<<"f", "a", "t", "h", "e", "r">>,
                       <<"m", "o", "t", "h", "e", "r">>,
                       <<"b", "r", "o", "t", "h", "e", "r">>,
                       <<"f", "r", "i", "e", "n", "d">>,
                       <<"s", "o", "n">>,
                       <<"w", "i", "f", "e">>,
                       <<"r", "i", "n", "g">>,
                       <<"u", "n", "c", "l", "e">>},
          ending \in {<<" ", "i", "l", "l", "?">>,
                      <<" ", "s", "i", "c", "k", "?">>,
                      <<" ", "r", "e", "c", "o", "v", "e", "r", "?">>,
                      <<" ", "d", "i", "e", "?">>,
                      <<" ", "l", "o", "s", "t", "?">>,
                      <<" ", "a", "b", "r", "o", "a", "d", "?">>} :
          req = [question |-> opening \o subject \o ending]
    /\ pc = "start"
    /\ chart = NoChart
    /\ result = [question_type |-> "none", relevant_houses |-> <<>>,
                 significators |-> <<>>, traditional_analysis |-> FALSE]
    /\ fn = "question"

AnalyzeQuestion ==
    /\ pc = "start"
    /\ result' = analyze_question(req.question)
    /\ pc' = "done"
    /\ UNCHANGED <<config, env, req, chart, fn>>

SpecQuestion == QuestionInit /\ [][AnalyzeQuestion]_vars

\* C20: for the question 'Is my father ill?', which names a relative and asks
\* about that person's illness, analyze_question returns question_type health,
\* relevant_houses [1, 6, 4], quesited_house 6 and the special significators
\* Mars and Saturn of a health question.
C20_IllRelativeAnalysis ==
    (/\ fn = "question" /\ pc = "done"
     /\ req.question = <<"I", "s", " ", "m", "y", " ", "f", "a", "t", "h", "e", "r", " ", "i", "l", "l", "?">>)
        => /\ result.question_type = "health"
           /\ result.relevant_houses = <<1, 6, 4>>
           /\ result.significators.quesited_house = 6
           /\ result.significators.special_significators =
                 [mars |-> "fever and inflammation", saturn |-> "chronic illness"]

====
